---- MODULE Spec2Model ----
(***************************************************************************)
(* A model of the cxline status line of codex-rs/tui/src/statusline: the   *)
(* render pipeline (build_statusline, StatusLineRenderer), the segment     *)
(* collectors with their f64 arithmetic, the themes (apply_theme), the     *)
(* loading of the configuration, the color picker's selection state        *)
(* machine (ColorPicker) and the separator editor (SeparatorEditor); and   *)
(* of the update action of codex-rs/tui/src/update_action.rs.              *)
(*                                                                         *)
(* Conventions.  Option<T> is a sequence: None is <<>> and Some(x) is      *)
(* <<x>>.  A String is a TLA+ string; glyphs outside ASCII are written by  *)
(* their code point ("U+E0B0").  A struct is a record with the source's    *)
(* field names; a HashMap<String, String> is a function on its key set.    *)
(***************************************************************************)
EXTENDS Integers, Sequences, FiniteSets, TLC

VARIABLES
    config,     \* the CxLineConfig the renderer borrows
    segments,   \* StatusLineRenderer.segments: Vec<(SegmentId, SegmentData)>
    line,       \* the spans of the Line last returned by render_line
    pc,         \* where the render pipeline stands: new, built, added, rendered
    input,      \* what build_statusline was last given: Some of the context and git's report
    picker,     \* the ColorPicker
    last,       \* the operation last applied to the picker, with its arguments
    nops,       \* how many picker operations have run
    editor      \* the SeparatorEditor

renderVars == <<config, segments, line, pc, input, editor>>
pickerVars == <<picker, last, nops>>
vars == <<config, segments, line, pc, input, picker, last, nops, editor>>

None == <<>>
Some(x) == <<x>>
IsSome(o) == o # <<>>
Unwrap(o) == o[1]

Min(a, b) == IF a < b THEN a ELSE b
Max(a, b) == IF a > b THEN a ELSE b

\* The element of a set of one element.
Only(S) == CHOOSE x \in S : TRUE

(***************************************************************************)
(* style.rs: colors, style modes, icons                                    *)
(***************************************************************************)
StyleModes == {"Plain", "NerdFont", "Powerline"}

U8 == 256

c16(code) == [kind |-> "Color16", c16 |-> code]
c256(code) == [kind |-> "Color256", c256 |-> code]
rgb(r, g, b) == [kind |-> "Rgb", r |-> r, g |-> g, b |-> b]

Ansi16Names ==
    << "Black", "Red", "Green", "Yellow", "Blue", "Magenta", "Cyan", "White",
       "DarkGray", "LightRed", "LightGreen", "LightYellow", "LightBlue",
       "LightMagenta", "LightCyan", "Gray" >>

\* A ratatui Color: <<name>>, <<"Indexed", n>> or <<"Rgb", r, g, b>>.
to_ratatui_color(c) ==
    CASE c.kind = "Color16" ->
            IF c.c16 <= 15 THEN << Ansi16Names[c.c16 + 1] >>
                           ELSE << "Indexed", c.c16 >>
      [] c.kind = "Color256" -> << "Indexed", c.c256 >>
      [] c.kind = "Rgb" -> << "Rgb", c.r, c.g, c.b >>

\* Serialize for the untagged AnsiColor: the table of the variant's fields.
serialize_by_code(c) ==
    CASE c.kind = "Color16" -> [f \in { "c16" } |-> c.c16]
      [] c.kind = "Color256" -> [f \in { "c16" } |-> c.c256]
      [] c.kind = "Rgb" -> [f \in { "r", "g", "b" } |-> c[f]]

serialize(c) ==
    CASE c.kind = "Color16" -> [f \in { "c16" } |-> c.c16]
      [] c.kind = "Color256" -> [f \in { "c256" } |-> c.c256]
      [] c.kind = "Rgb" -> [f \in { "r", "g", "b" } |-> c[f]]

\* A table has the u8 fields of a variant; other fields of the table are ignored.
has_fields(table, fields) ==
    \A f \in fields : f \in DOMAIN table /\ table[f] \in 0..(U8 - 1)

\* Deserialize for the untagged AnsiColor: the first variant, in the order of
\* the enum, whose fields the table has; None when no variant matches.
deserialize(table) ==
    IF has_fields(table, { "c16" }) THEN Some(c16(table["c16"]))
    ELSE IF has_fields(table, { "c256" }) THEN Some(c256(table["c256"]))
    ELSE IF has_fields(table, { "r", "g", "b" })
         THEN Some(rgb(table["r"], table["g"], table["b"]))
    ELSE None

IconConfig_new(plain, nerd_font) == [plain |-> plain, nerd_font |-> nerd_font]

IconConfig_get(icon, mode) ==
    IF mode = "Plain" THEN icon.plain ELSE icon.nerd_font

ColorConfig_new(icon, text) ==
    [icon |-> Some(icon), text |-> Some(text), background |-> None]

with_background(colors, bg) == [colors EXCEPT !.background = Some(bg)]

MapColor(o) == IF IsSome(o) THEN Some(to_ratatui_color(Unwrap(o))) ELSE None

icon_color(colors) == MapColor(colors.icon)
text_color(colors) == MapColor(colors.text)
background_color(colors) == MapColor(colors.background)

SIMPLE == " U+2502 "
POWERLINE_THIN == "U+E0B1"
POWERLINE_ARROW == "U+E0B0"

(***************************************************************************)
(* segment.rs: SegmentId and SegmentData                                   *)
(***************************************************************************)
SegmentOrder == << "Model", "Directory", "Git", "Context", "Usage" >>
SegmentId == { SegmentOrder[i] : i \in DOMAIN SegmentOrder }

NoMetadata == [k \in {} |-> ""]

SegmentData_new(primary) ==
    [primary |-> primary, secondary |-> "", metadata |-> NoMetadata]

with_secondary(data, secondary) == [data EXCEPT !.secondary = secondary]

with_metadata(data, key, value) ==
    [data EXCEPT !.metadata = (key :> value) @@ data.metadata]

metadata_get(data, key) ==
    IF key \in DOMAIN data.metadata THEN Some(data.metadata[key]) ELSE None

(***************************************************************************)
(* config.rs and themes.rs: the configuration and the built-in presets     *)
(***************************************************************************)
TextStyleConfig_default == [text_bold |-> FALSE]

SegmentItemConfig(id, icon, colors, styles) ==
    [id |-> id, enabled |-> TRUE, icon |-> icon, colors |-> colors,
     styles |-> styles, options |-> NoMetadata]

CxLineConfig(theme, style, separator, segs) ==
    [enabled |-> TRUE, theme |-> theme, style |-> style,
     separator |-> separator, segments |-> segs]

SegmentsConfig(model, directory, git, context, usage) ==
    [model |-> model, directory |-> directory, git |-> git,
     context |-> context, usage |-> usage]

BRIGHT_CYAN == c16(14)
BRIGHT_YELLOW == c16(11)
BRIGHT_GREEN == c16(10)
BRIGHT_BLUE == c16(12)
BRIGHT_MAGENTA == c16(13)
MAGENTA == c16(5)

\* The five items of the themes that differ only in icons, colors and boldness.
PlainItems(icons, cols, bold) ==
    SegmentsConfig(
        SegmentItemConfig("Model", icons[1], cols[1], [text_bold |-> bold]),
        SegmentItemConfig("Directory", icons[2], cols[2], [text_bold |-> bold]),
        SegmentItemConfig("Git", icons[3], cols[3], [text_bold |-> bold]),
        SegmentItemConfig("Context", icons[4], cols[4], [text_bold |-> bold]),
        SegmentItemConfig("Usage", icons[5], cols[5], TextStyleConfig_default))

StandardIcons ==
    << IconConfig_new("robot", "U+E26D"), IconConfig_new("folder", "U+F024B"),
       IconConfig_new("herb", "U+F02A2"), IconConfig_new("zap", "U+F49B"),
       IconConfig_new("chart", "U+F0A9E") >>

MinimalIcons ==
    << IconConfig_new("U+273D", "U+F2D0"), IconConfig_new("U+25D0", "U+F024B"),
       IconConfig_new("U+203B", "U+F02A2"), IconConfig_new("U+25D0", "U+F49B"),
       IconConfig_new("chart", "U+F0A9E") >>

StandardColors ==
    << ColorConfig_new(BRIGHT_CYAN, BRIGHT_CYAN),
       ColorConfig_new(BRIGHT_YELLOW, BRIGHT_GREEN),
       ColorConfig_new(BRIGHT_BLUE, BRIGHT_BLUE),
       ColorConfig_new(BRIGHT_MAGENTA, BRIGHT_MAGENTA),
       ColorConfig_new(BRIGHT_CYAN, BRIGHT_CYAN) >>

get_default ==
    CxLineConfig("default", "Plain", " U+2502 ",
                 PlainItems(StandardIcons, StandardColors, FALSE))

get_cometix ==
    CxLineConfig("cometix", "NerdFont", " U+2502 ",
                 PlainItems(StandardIcons, StandardColors, TRUE))

get_minimal ==
    CxLineConfig("minimal", "Plain", " U+2502 ",
                 PlainItems(MinimalIcons, StandardColors, FALSE))

get_gruvbox ==
    CxLineConfig("gruvbox", "NerdFont", " U+2502 ",
                 PlainItems(StandardIcons,
                            << ColorConfig_new(c256(208), c256(208)),
                               ColorConfig_new(c256(142), c256(142)),
                               ColorConfig_new(c256(109), c256(109)),
                               ColorConfig_new(MAGENTA, MAGENTA),
                               ColorConfig_new(BRIGHT_CYAN, BRIGHT_CYAN) >>,
                            TRUE))

\* A Powerline theme: per segment the foreground (icon and text) and the background.
PowerlineTheme(name, fg, bg) ==
    CxLineConfig(name, "Powerline", "U+E0B0",
        PlainItems(StandardIcons,
                   [i \in 1..5 |-> with_background(ColorConfig_new(fg[i], fg[i]), bg[i])],
                   FALSE))

get_nord ==
    PowerlineTheme("nord",
        [i \in 1..5 |-> rgb(46, 52, 64)],
        << rgb(136, 192, 208), rgb(163, 190, 140), rgb(129, 161, 193),
           rgb(180, 142, 173), rgb(235, 203, 139) >>)

get_powerline_dark ==
    PowerlineTheme("powerline-dark",
        << rgb(255, 255, 255), rgb(255, 255, 255), rgb(255, 255, 255),
           rgb(209, 213, 219), rgb(209, 213, 219) >>,
        << rgb(45, 45, 45), rgb(139, 69, 19), rgb(64, 64, 64),
           rgb(55, 65, 81), rgb(45, 50, 59) >>)

get_powerline_light ==
    PowerlineTheme("powerline-light",
        << rgb(0, 0, 0), rgb(255, 255, 255), rgb(255, 255, 255),
           rgb(255, 255, 255), rgb(255, 255, 255) >>,
        << rgb(135, 206, 235), rgb(255, 107, 71), rgb(79, 179, 217),
           rgb(107, 114, 128), rgb(40, 167, 69) >>)

get_powerline_rose_pine ==
    PowerlineTheme("powerline-rose-pine",
        << rgb(235, 188, 186), rgb(196, 167, 231), rgb(156, 207, 216),
           rgb(224, 222, 244), rgb(246, 193, 119) >>,
        << rgb(25, 23, 36), rgb(38, 35, 58), rgb(31, 29, 46),
           rgb(82, 79, 103), rgb(35, 33, 54) >>)

get_powerline_tokyo_night ==
    PowerlineTheme("powerline-tokyo-night",
        << rgb(252, 167, 234), rgb(130, 170, 255), rgb(195, 232, 141),
           rgb(192, 202, 245), rgb(224, 175, 104) >>,
        << rgb(25, 27, 41), rgb(47, 51, 77), rgb(30, 32, 48),
           rgb(61, 89, 161), rgb(36, 40, 59) >>)

THEME_NAMES ==
    << "default", "cometix", "minimal", "gruvbox", "nord", "powerline-dark",
       "powerline-light", "powerline-rose-pine", "powerline-tokyo-night" >>

get_builtin(theme_name) ==
    CASE theme_name = "default" -> Some(get_default)
      [] theme_name = "cometix" -> Some(get_cometix)
      [] theme_name = "minimal" -> Some(get_minimal)
      [] theme_name = "gruvbox" -> Some(get_gruvbox)
      [] theme_name = "nord" -> Some(get_nord)
      [] theme_name = "powerline-dark" -> Some(get_powerline_dark)
      [] theme_name = "powerline-light" -> Some(get_powerline_light)
      [] theme_name = "powerline-rose-pine" -> Some(get_powerline_rose_pine)
      [] theme_name = "powerline-tokyo-night" -> Some(get_powerline_tokyo_night)
      [] OTHER -> None

get_segment_config(cfg, id) ==
    CASE id = "Model" -> cfg.segments.model
      [] id = "Directory" -> cfg.segments.directory
      [] id = "Git" -> cfg.segments.git
      [] id = "Context" -> cfg.segments.context
      [] id = "Usage" -> cfg.segments.usage

\* A file of the configuration directory: absent, unreadable, malformed (not
\* TOML, or TOML that is no CxLineConfig), or a table of some of the fields.
Document(state, table) == [state |-> state, table |-> table]

field_or(table, name, default) == IF name \in DOMAIN table THEN table[name] ELSE default

\* toml::from_str::<CxLineConfig> with the serde defaults of config.rs.
from_str(doc) ==
    IF doc.state # "table" THEN None
    ELSE LET given == field_or(doc.table, "segments", << >>) IN
         Some([enabled |-> field_or(doc.table, "enabled", TRUE),
               theme |-> field_or(doc.table, "theme", "cometix"),
               style |-> field_or(doc.table, "style", "NerdFont"),
               separator |-> field_or(doc.table, "separator", " U+2502 "),
               segments |-> [k \in DOMAIN get_default.segments |->
                                field_or(given, k, get_default.segments[k])]])

\* ThemePresets::load_from_file, for the document at <themes_dir>/<theme_name>.toml.
load_from_file(doc) == IF doc.state = "absent" THEN None ELSE from_str(doc)

get_theme_or_default(theme_name, file) ==
    IF IsSome(file) THEN Unwrap(file) ELSE get_default

\* file is what load_from_file finds for theme_name: None when there is no
\* readable, well-formed theme file of that name, else the configuration in it.
get_theme(theme_name, file) ==
    IF IsSome(file) THEN Unwrap(file)
    ELSE IF IsSome(get_builtin(theme_name)) THEN Unwrap(get_builtin(theme_name))
    ELSE get_default

\* CxLineConfig::default(); a theme file that init() finds absent and writes
\* holds the built-in preset.
CxLineConfig_default(cometix_doc) == get_theme("cometix", load_from_file(cometix_doc))

\* CxLineConfig::load, for the documents at config.toml and themes/cometix.toml.
load(config_doc, cometix_doc) ==
    IF config_doc.state = "absent" THEN CxLineConfig_default(cometix_doc)
    ELSE IF IsSome(from_str(config_doc)) THEN Unwrap(from_str(config_doc))
    ELSE CxLineConfig_default(cometix_doc)

apply_theme_merging(cfg, theme_name, file) ==
    LET theme == get_theme(theme_name, file) IN
    [cfg EXCEPT !.theme = theme_name, !.style = theme.style,
                !.separator = theme.separator,
                !.segments = [theme.segments EXCEPT
                                !.model.enabled = cfg.segments.model.enabled]]

apply_theme(cfg, theme_name, file) ==
    LET theme == get_theme(theme_name, file) IN
    [cfg EXCEPT !.theme = theme_name, !.style = theme.style,
                !.separator = theme.separator, !.segments = theme.segments]

(***************************************************************************)
(* f64: IEEE 754 binary64 arithmetic on the values the collectors compute  *)
(***************************************************************************)
F64_MANTISSA_DIGITS == 53

\* An f64 above zero is its significand, F64_MANTISSA_DIGITS binary digits of
\* which the first is 1, and the exponent of that first digit; F64_ZERO is 0.0.
F64_ZERO == [bits |-> <<>>, exp |-> 0]

Zeros(n) == [i \in 1..n |-> 0]

\* The binary digits of n, the leading one first.
IntBits(n) ==
    LET len == Cardinality({ l \in 0..30 : 2^l <= n }) IN
    [i \in 1..len |-> (n \div 2^(len - i)) % 2]

RECURSIVE BitsValue(_, _)
\* The whole number whose binary digits are bits[1..n].
BitsValue(bits, n) == IF n = 0 THEN 0 ELSE 2 * BitsValue(bits, n - 1) + bits[n]

\* bits + 1, of the same length unless every digit was 1.
Successor(bits) ==
    LET zeros == { i \in DOMAIN bits : bits[i] = 0 } IN
    IF zeros = {} THEN << 1 >> \o Zeros(Len(bits))
    ELSE LET j == CHOOSE i \in zeros : \A k \in zeros : k <= i IN
         [i \in DOMAIN bits |-> IF i < j THEN bits[i] ELSE IF i = j THEN 1 ELSE 0]

\* Round to nearest, ties to even: the f64 nearest to the number whose binary
\* digits from its leading 1 (of exponent exp) are bits, followed by more
\* digits that are all zero exactly when exact.
f64_round(bits, exp, exact) ==
    IF Len(bits) <= F64_MANTISSA_DIGITS
    THEN [bits |-> bits \o Zeros(F64_MANTISSA_DIGITS - Len(bits)), exp |-> exp]
    ELSE LET kept == SubSeq(bits, 1, F64_MANTISSA_DIGITS)
             half == bits[F64_MANTISSA_DIGITS + 1]
             rest == \E i \in (F64_MANTISSA_DIGITS + 2)..Len(bits) : bits[i] = 1
             up == half = 1 /\ (rest \/ ~exact \/ kept[F64_MANTISSA_DIGITS] = 1)
             next == Successor(kept)
         IN  IF ~up THEN [bits |-> kept, exp |-> exp]
             ELSE [bits |-> SubSeq(next, 1, F64_MANTISSA_DIGITS),
                   exp |-> exp + Len(next) - F64_MANTISSA_DIGITS]

RECURSIVE LongDivision(_, _, _)
\* The first n binary digits of rem / w after the point, for rem < w, then
\* what is left to divide after them.
LongDivision(rem, w, n) ==
    IF n = 1 THEN << (2 * rem) \div w, (2 * rem) % w >>
    ELSE Only({ Only({ SubSeq(first, 1, Len(first) - 1) \o second :
                        second \in { LongDivision(first[Len(first)], w, n - n \div 2) } }) :
                  first \in { LongDivision(rem, w, n \div 2) } })

\* n as f64 / w as f64, for whole numbers n >= 0 and 0 < w < 2^30 (an f64 holds
\* them exactly): enough digits of the quotient to round it.
f64_div(n, w) ==
    IF n = 0 THEN F64_ZERO
    ELSE LET whole == IntBits(n \div w)
             after == LongDivision(n % w, w, F64_MANTISSA_DIGITS + 32)
             digits == whole \o SubSeq(after, 1, Len(after) - 1)
             lead == CHOOSE i \in DOMAIN digits :
                        digits[i] = 1 /\ \A j \in 1..(i - 1) : digits[j] = 0
         IN  f64_round(SubSeq(digits, lead, Len(digits)), Len(whole) - lead,
                       after[Len(after)] = 0)

RECURSIVE TimesBits(_, _, _, _, _)
\* The binary digits lo..hi of bits times k with carry added at digit hi, after
\* the carry out of digit lo.
TimesBits(bits, lo, hi, k, carry) ==
    IF lo = hi THEN << (bits[hi] * k + carry) \div 2, (bits[hi] * k + carry) % 2 >>
    ELSE Only({ Only({ upper \o Tail(lower) :
                        upper \in { TimesBits(bits, lo, (lo + hi) \div 2, k, lower[1]) } }) :
                  lower \in { TimesBits(bits, (lo + hi) \div 2 + 1, hi, k, carry) } })

\* The digits of x * k from its leading 1, for x above zero and a whole number k > 0.
f64_product_bits(x, k) ==
    Only({ IntBits(product[1]) \o Tail(product) :
            product \in { TimesBits(x.bits, 1, Len(x.bits), k, 0) } })

\* x * (k as f64), for a whole number k > 0 that an f64 holds exactly.
f64_mul(x, k) ==
    IF x = F64_ZERO THEN F64_ZERO
    ELSE Only({ f64_round(product, x.exp + Len(product) - Len(x.bits), TRUE) :
                  product \in { f64_product_bits(x, k) } })

\* x as i64, for x below 2^31: the whole part of x.
as_i64(x) ==
    IF x = F64_ZERO \/ x.exp < 0 THEN 0
    ELSE BitsValue(x.bits, x.exp + 1)

\* x as u8: the cast saturates.
as_u8(x) == Min(as_i64(x), U8 - 1)

\* The tenths in "{:.1}" of x: x * 10 to the nearest whole number, and to the
\* even one from half way.
RoundedTenths(x) ==
    IF x = F64_ZERO THEN 0
    ELSE Only({ LET point == Max(x.exp + 1 + Len(product) - Len(x.bits), 0)
                    whole == BitsValue(product, point)
                    half == x.exp + 1 + Len(product) - Len(x.bits) >= 0
                            /\ point < Len(product) /\ product[point + 1] = 1
                    rest == \E i \in (point + 2)..Len(product) : product[i] = 1
                IN  IF half /\ (rest \/ whole % 2 = 1) THEN whole + 1 ELSE whole :
                product \in { f64_product_bits(x, 10) } })

(***************************************************************************)
(* segments/*.rs: the five collectors, and mod.rs: build_statusline        *)
(***************************************************************************)
DOT == "U+00B7"

\* A std::path::Path: whether it starts at the root, and its components.
Path(absolute, comps) == [absolute |-> absolute, comps |-> comps]

RECURSIVE JoinWith(_, _)
JoinWith(parts, sep) ==
    IF parts = <<>> THEN ""
    ELSE IF Len(parts) = 1 THEN parts[1]
    ELSE parts[1] \o sep \o JoinWith(Tail(parts), sep)

to_string_lossy(path) ==
    (IF path.absolute THEN "/" ELSE "") \o JoinWith(path.comps, "/")

\* Path::file_name: the last component when it is a normal one, not the root,
\* ".." or a path that is "." alone.
file_name(path) ==
    IF path.comps # <<>> /\ path.comps[Len(path.comps)] \notin { "..", "." }
    THEN Some(path.comps[Len(path.comps)])
    ELSE None

extract_directory_name(path) ==
    IF IsSome(file_name(path)) THEN Unwrap(file_name(path))
    ELSE IF to_string_lossy(path) = "" THEN "" ELSE "/"

DirectorySegment_collect(ctx) ==
    LET dir_name == extract_directory_name(ctx.cwd) IN
    IF dir_name = "" THEN None
    ELSE Some(with_metadata(SegmentData_new(dir_name), "full_path",
                            to_string_lossy(ctx.cwd)))

ModelSegment_collect(ctx) ==
    IF ctx.model_name = "" THEN None ELSE Some(SegmentData_new(ctx.model_name))

\* "{:.1}" of tenths/10 for a count of tenths.
OneDecimal(tenths) == ToString(tenths \div 10) \o "." \o ToString(tenths % 10)

format_tokens_truncating(tokens) ==
    IF tokens >= 1000000 THEN OneDecimal((tokens * 10) \div 1000000) \o "M"
    ELSE IF tokens >= 1000 THEN OneDecimal((tokens * 10) \div 1000) \o "k"
    ELSE ToString(tokens)

format_tokens(tokens) ==
    IF tokens >= 1000000 THEN OneDecimal(RoundedTenths(f64_div(tokens, 1000000))) \o "M"
    ELSE IF tokens >= 1000 THEN OneDecimal(RoundedTenths(f64_div(tokens, 1000))) \o "k"
    ELSE ToString(tokens)

ContextSegment_collect_or_none(ctx) ==
    IF ~IsSome(ctx.context_used_tokens) THEN None
    ELSE Some(SegmentData_new(format_tokens(Unwrap(ctx.context_used_tokens)) \o " tokens"))

ContextSegment_collect(ctx) ==
    LET used == ctx.context_used_tokens
        window == ctx.context_window_size
        used_percent ==
            IF IsSome(used) /\ IsSome(window) /\ Unwrap(window) > 0
            THEN Some(as_i64(f64_mul(f64_div(Unwrap(used), Unwrap(window)), 100)))
            ELSE None
    IN  CASE IsSome(used_percent) /\ IsSome(used) ->
                Some(with_metadata(with_metadata(with_metadata(
                    SegmentData_new(ToString(Unwrap(used_percent)) \o "% " \o DOT
                                    \o " " \o format_tokens(Unwrap(used)) \o " tokens"),
                    "percent", ToString(Unwrap(used_percent))),
                    "tokens", ToString(Unwrap(used))),
                    "type", "full"))
          [] ~IsSome(used_percent) /\ IsSome(used) ->
                Some(with_metadata(with_metadata(
                    SegmentData_new(format_tokens(Unwrap(used)) \o " tokens"),
                    "tokens", ToString(Unwrap(used))),
                    "type", "tokens"))
          [] OTHER ->
                Some(with_metadata(with_metadata(with_metadata(
                    SegmentData_new("- " \o DOT \o " - tokens"),
                    "percent", "-"),
                    "tokens", "-"),
                    "type", "placeholder"))

get_circle_icon_late(utilization) ==
    LET percent == as_u8(f64_mul(utilization, 100)) IN
    CASE percent <= 13 -> "U+F0A9E"
      [] percent >= 14 /\ percent <= 25 -> "U+F0A9F"
      [] percent >= 26 /\ percent <= 37 -> "U+F0AA0"
      [] percent >= 38 /\ percent <= 50 -> "U+F0AA1"
      [] percent >= 51 /\ percent <= 62 -> "U+F0AA2"
      [] percent >= 63 /\ percent <= 75 -> "U+F0AA3"
      [] percent >= 76 /\ percent <= 87 -> "U+F0AA4"
      [] OTHER -> "U+F0AA5"

get_circle_icon(utilization) ==
    LET percent == as_u8(f64_mul(utilization, 100)) IN
    CASE percent <= 12 -> "U+F0A9E"
      [] percent >= 13 /\ percent <= 25 -> "U+F0A9F"
      [] percent >= 26 /\ percent <= 37 -> "U+F0AA0"
      [] percent >= 38 /\ percent <= 50 -> "U+F0AA1"
      [] percent >= 51 /\ percent <= 62 -> "U+F0AA2"
      [] percent >= 63 /\ percent <= 75 -> "U+F0AA3"
      [] percent >= 76 /\ percent <= 87 -> "U+F0AA4"
      [] OTHER -> "U+F0AA5"

\* rate_limit_percent is a whole number of percent here.
UsageSegment_collect(ctx) ==
    IF ~IsSome(ctx.rate_limit_percent) THEN None
    ELSE LET percent == Unwrap(ctx.rate_limit_percent)
             data == with_metadata(with_metadata(
                        SegmentData_new(ToString(percent) \o "%"),
                        "percent", ToString(percent) \o ".0"),
                        "dynamic_icon", get_circle_icon(f64_div(percent, 100)))
         IN  IF IsSome(ctx.rate_limit_resets_at)
             THEN Some(with_metadata(
                        with_secondary(data, DOT \o " " \o Unwrap(ctx.rate_limit_resets_at)),
                        "resets_at", Unwrap(ctx.rate_limit_resets_at)))
             ELSE Some(data)

\* The secondary text of the Git segment: the status, then the ahead and behind counts.
GitStatusParts(status, ahead, behind) ==
    JoinWith(<< status >>
             \o (IF ahead > 0 THEN << "U+2191" \o ToString(ahead) >> ELSE <<>>)
             \o (IF behind > 0 THEN << "U+2193" \o ToString(behind) >> ELSE <<>>),
             " ")

GitStatusSymbol(status) ==
    CASE status = "Clean" -> "U+2713"
      [] status = "Dirty" -> "U+25CF"
      [] status = "Conflicts" -> "U+26A0"

\* git_info is what the git tool reports for ctx.cwd (None outside a repository).
GitSegment_collect(ctx, git_info) ==
    IF IsSome(ctx.git_preview)
    THEN LET preview == Unwrap(ctx.git_preview) IN
         IF preview.branch = "" /\ preview.status = "" THEN None
         ELSE Some(with_metadata(with_metadata(with_metadata(with_metadata(
                with_secondary(SegmentData_new(preview.branch),
                    GitStatusParts(preview.status, preview.ahead, preview.behind)),
                "branch", preview.branch),
                "status", preview.status),
                "ahead", ToString(preview.ahead)),
                "behind", ToString(preview.behind)))
    ELSE IF ~IsSome(git_info) THEN None
    ELSE LET info == Unwrap(git_info) IN
         Some(with_metadata(with_metadata(with_metadata(with_metadata(
                with_secondary(SegmentData_new(info.branch),
                    GitStatusParts(GitStatusSymbol(info.status), info.ahead, info.behind)),
                "branch", info.branch),
                "status", info.status),
                "ahead", ToString(info.ahead)),
                "behind", ToString(info.behind)))

collect(id, ctx, git_info) ==
    CASE id = "Model" -> ModelSegment_collect(ctx)
      [] id = "Directory" -> DirectorySegment_collect(ctx)
      [] id = "Git" -> GitSegment_collect(ctx, git_info)
      [] id = "Context" -> ContextSegment_collect(ctx)
      [] id = "Usage" -> UsageSegment_collect(ctx)

add_segment(segs, id, data) == Append(segs, << id, data >>)

BuildOrderSwapped == << "Model", "Git", "Directory", "Context", "Usage" >>

\* The order in which build_statusline visits the segments.
BuildOrder == << "Model", "Directory", "Git", "Context", "Usage" >>

RECURSIVE build_from(_, _, _, _, _)
build_from(cfg, ctx, git_info, i, segs) ==
    IF i > Len(BuildOrder) THEN segs
    ELSE LET id == BuildOrder[i]
             data == collect(id, ctx, git_info)
         IN  IF get_segment_config(cfg, id).enabled /\ IsSome(data)
             THEN build_from(cfg, ctx, git_info, i + 1, add_segment(segs, id, Unwrap(data)))
             ELSE build_from(cfg, ctx, git_info, i + 1, segs)

build_statusline(cfg, ctx, git_info) == build_from(cfg, ctx, git_info, 1, <<>>)

(***************************************************************************)
(* renderer.rs: StatusLineRenderer                                         *)
(***************************************************************************)
Style_default == [fg |-> None, bg |-> None, bold |-> FALSE, dim |-> FALSE]

with_fg(style, color) == IF IsSome(color) THEN [style EXCEPT !.fg = color] ELSE style
with_bg(style, color) == IF IsSome(color) THEN [style EXCEPT !.bg = color] ELSE style
with_bold(style, bold) == IF bold THEN [style EXCEPT !.bold = TRUE] ELSE style

Span_styled(content, style) == [content |-> content, style |-> style]
Span_raw(content) == Span_styled(content, Style_default)
Span_dim(span) == [span EXCEPT !.style.dim = TRUE]

get_separator(cfg) ==
    IF cfg.style = "Powerline" THEN POWERLINE_THIN ELSE SIMPLE

get_icon_nonempty(cfg, id, data) ==
    IF IsSome(metadata_get(data, "dynamic_icon"))
       /\ Unwrap(metadata_get(data, "dynamic_icon")) # ""
    THEN Unwrap(metadata_get(data, "dynamic_icon"))
    ELSE IconConfig_get(get_segment_config(cfg, id).icon, cfg.style)

get_icon(cfg, id, data) ==
    IF IsSome(metadata_get(data, "dynamic_icon"))
    THEN Unwrap(metadata_get(data, "dynamic_icon"))
    ELSE IconConfig_get(get_segment_config(cfg, id).icon, cfg.style)

separator_always(first) == TRUE

\* render_plain's test for pushing the separator before a segment.
separator_due(first) == ~first

\* The spans render_plain pushes for one enabled segment, after the separator.
plain_segment_spans(cfg, id, data) ==
    LET segment_config == get_segment_config(cfg, id)
        icon == get_icon(cfg, id, data)
        icon_style == with_fg(Style_default, icon_color(segment_config.colors))
        text_style == with_bold(with_fg(Style_default, text_color(segment_config.colors)),
                                segment_config.styles.text_bold)
    IN  (IF icon # "" THEN << Span_styled(icon \o " ", icon_style) >> ELSE <<>>)
        \o << Span_styled(data.primary, text_style) >>
        \o (IF data.secondary # ""
            THEN << Span_styled(" " \o data.secondary, text_style) >> ELSE <<>>)

RECURSIVE plain_loop(_, _, _, _, _)
plain_loop(cfg, segs, i, first, spans) ==
    IF i > Len(segs) THEN spans
    ELSE LET id == segs[i][1]
             data == segs[i][2]
         IN  IF ~get_segment_config(cfg, id).enabled
             THEN plain_loop(cfg, segs, i + 1, first, spans)
             ELSE plain_loop(cfg, segs, i + 1, FALSE,
                    (IF separator_due(first)
                     THEN Append(spans, Span_dim(Span_raw(get_separator(cfg))))
                     ELSE spans)
                    \o plain_segment_spans(cfg, id, data))

render_plain(cfg, segs) == plain_loop(cfg, segs, 1, TRUE, <<>>)

\* The segments of the list whose configuration is enabled, in list order.
enabled_segments(cfg, segs) ==
    SelectSeq(segs, LAMBDA s : get_segment_config(cfg, s[1]).enabled)

arrow_style_reversed(curr_bg, next_bg) ==
    with_bg(with_fg(Style_default, next_bg), curr_bg)

arrow_style(curr_bg, next_bg) ==
    with_bg(with_fg(Style_default, curr_bg), next_bg)

powerline_segment_spans_icon_last(cfg, id, data) ==
    LET segment_config == get_segment_config(cfg, id)
        segment_style ==
            with_bold(with_fg(with_bg(Style_default,
                                      background_color(segment_config.colors)),
                              text_color(segment_config.colors)),
                      segment_config.styles.text_bold)
        icon == get_icon(cfg, id, data)
    IN  << Span_styled(" ", segment_style), Span_styled(data.primary, segment_style) >>
        \o (IF data.secondary # ""
            THEN << Span_styled(" " \o data.secondary, segment_style) >> ELSE <<>>)
        \o (IF icon # "" THEN << Span_styled(" " \o icon, segment_style) >> ELSE <<>>)
        \o << Span_styled(" ", segment_style) >>

\* The spans render_powerline pushes for one segment, before its arrow.
powerline_segment_spans(cfg, id, data) ==
    LET segment_config == get_segment_config(cfg, id)
        segment_style ==
            with_bold(with_fg(with_bg(Style_default,
                                      background_color(segment_config.colors)),
                              text_color(segment_config.colors)),
                      segment_config.styles.text_bold)
        icon == get_icon(cfg, id, data)
        icon_style == with_fg(segment_style, icon_color(segment_config.colors))
    IN  << Span_styled(" ", segment_style) >>
        \o (IF icon # "" THEN << Span_styled(icon \o " ", icon_style) >> ELSE <<>>)
        \o << Span_styled(data.primary, segment_style) >>
        \o (IF data.secondary # ""
            THEN << Span_styled(" " \o data.secondary, segment_style) >> ELSE <<>>)
        \o << Span_styled(" ", segment_style) >>

\* a - b in usize: None when the difference is negative, where a build with
\* overflow checks panics and one without wraps to a value near usize::MAX.
usize_sub(a, b) == IF a >= b THEN Some(a - b) ELSE None

powerline_iterations_once(enabled) == 0 .. Max(Len(enabled) - 1, 0)

\* The values of i for which the body of render_powerline's loop runs.
powerline_iterations(enabled) == 0 .. Len(enabled) - 1

\* i counts from 1 here and from 0 in the source: the source's i < segment_count - 1.
RECURSIVE powerline_loop(_, _, _, _)
powerline_loop(cfg, enabled, i, spans) ==
    IF i - 1 \notin powerline_iterations(enabled) THEN spans
    ELSE LET id == enabled[i][1]
             data == enabled[i][2]
             segment_count == Len(enabled)
             bg_color == background_color(get_segment_config(cfg, id).colors)
         IN  powerline_loop(cfg, enabled, i + 1,
                spans \o powerline_segment_spans(cfg, id, data)
                \o (IF i - 1 < segment_count - 1
                    THEN << Span_styled(POWERLINE_ARROW,
                              arrow_style(bg_color,
                                background_color(
                                  get_segment_config(cfg, enabled[i + 1][1]).colors))) >>
                    ELSE <<>>))

render_powerline(cfg, segs) == powerline_loop(cfg, enabled_segments(cfg, segs), 1, <<>>)

render_line(cfg, segs) ==
    IF cfg.style = "Powerline" THEN render_powerline(cfg, segs)
    ELSE render_plain(cfg, segs)

\* Whether render_powerline panics: some run of its loop body finds
\* segment_count - 1 negative (with overflow checks the subtraction panics,
\* without them i < segment_count - 1 holds and enabled_segments[i + 1] panics)
\* or indexes past the end of enabled_segments.
render_powerline_panics(cfg, segs) ==
    LET enabled == enabled_segments(cfg, segs)
        segment_count == Len(enabled)
    IN  \E i \in powerline_iterations(enabled) :
            \/ usize_sub(segment_count, 1) = None
            \/ i < Unwrap(usize_sub(segment_count, 1)) /\ i + 1 >= segment_count

\* render_plain has no arithmetic and no indexing.
render_line_panics(cfg, segs) ==
    cfg.style = "Powerline" /\ render_powerline_panics(cfg, segs)

(***************************************************************************)
(* color_picker.rs: ColorPicker                                            *)
(***************************************************************************)
ColorPickerMode == { "Basic16", "Extended256", "RgbInput" }
RgbField == { "Red", "Green", "Blue", "Hex" }
ColorTarget == { "IconColor", "TextColor", "BackgroundColor" }

\* A String is the sequence of its characters here.
RgbInput_default ==
    [r |-> <<>>, g |-> <<>>, b |-> <<>>, hex |-> <<>>, editing_field |-> "Red"]

DefaultPicker ==
    [is_open |-> FALSE, mode |-> "Basic16", selected_basic |-> 0,
     selected_extended |-> 0, rgb_input |-> RgbInput_default,
     current_color |-> None, target_field |-> "IconColor",
     cached_basic_cols |-> 8, cached_extended_cols |-> 8]

open_keeping_selection(p, target, current) ==
    [p EXCEPT !.is_open = TRUE, !.target_field = target, !.mode = "Basic16",
              !.rgb_input = RgbInput_default, !.current_color = current]

open(p, target, current) ==
    [p EXCEPT !.is_open = TRUE, !.target_field = target, !.mode = "Basic16",
              !.selected_basic = 0, !.selected_extended = 0,
              !.rgb_input = RgbInput_default, !.current_color = current]

close_and_clear(p) == [p EXCEPT !.is_open = FALSE, !.current_color = None]

close(p) == [p EXCEPT !.is_open = FALSE]

cycle_mode_backward(p) ==
    [p EXCEPT !.mode = CASE p.mode = "Basic16" -> "RgbInput"
                         [] p.mode = "Extended256" -> "Basic16"
                         [] p.mode = "RgbInput" -> "Extended256"]

cycle_mode_resetting(p) ==
    [p EXCEPT !.mode = CASE p.mode = "Basic16" -> "Extended256"
                         [] p.mode = "Extended256" -> "RgbInput"
                         [] p.mode = "RgbInput" -> "Basic16",
              !.selected_basic = 0, !.selected_extended = 0,
              !.rgb_input = RgbInput_default]

cycle_mode_committing(p) ==
    [p EXCEPT !.mode = CASE p.mode = "Basic16" -> "Extended256"
                         [] p.mode = "Extended256" -> "RgbInput"
                         [] p.mode = "RgbInput" -> "Basic16",
              !.current_color = IF p.mode = "Basic16"
                                THEN Some(c16(p.selected_basic)) ELSE @]

cycle_mode(p) ==
    [p EXCEPT !.mode = CASE p.mode = "Basic16" -> "Extended256"
                         [] p.mode = "Extended256" -> "RgbInput"
                         [] p.mode = "RgbInput" -> "Basic16"]

wrap_step_clamped(current, delta, max_index) ==
    IF delta > 0 THEN (IF current < max_index THEN current + 1 ELSE max_index)
    ELSE IF current > 0 THEN current - 1 ELSE 0

\* move_horizontal's new selection in a grid whose last index is max_index.
wrap_step(current, delta, max_index) ==
    IF delta > 0 THEN (IF current < max_index THEN current + 1 ELSE 0)
    ELSE IF current > 0 THEN current - 1 ELSE max_index

next_field(field, forward) ==
    CASE field = "Red" -> IF forward THEN "Green" ELSE "Hex"
      [] field = "Green" -> IF forward THEN "Blue" ELSE "Red"
      [] field = "Blue" -> IF forward THEN "Hex" ELSE "Green"
      [] field = "Hex" -> IF forward THEN "Red" ELSE "Blue"

select_basic_keep_color(p, index) == [p EXCEPT !.selected_basic = index]

\* selected_basic = index; current_color = Some(c16(selected_basic as u8)).
select_basic(p, index) ==
    [p EXCEPT !.selected_basic = index, !.current_color = Some(c16(index % U8))]

select_extended(p, index) ==
    [p EXCEPT !.selected_extended = index, !.current_color = Some(c256(index % U8))]

move_horizontal(p, delta) ==
    CASE p.mode = "Basic16" -> select_basic(p, wrap_step(p.selected_basic, delta, 15))
      [] p.mode = "Extended256" ->
            select_extended(p, wrap_step(p.selected_extended, delta, 255))
      [] p.mode = "RgbInput" ->
            [p EXCEPT !.rgb_input.editing_field = next_field(@, delta > 0)]

div_ceil(a, b) == (a + b - 1) \div b

row_step_unclamped(current, delta, cols, size) ==
    LET current_row == current \div cols
        current_col == current % cols
        total_rows == div_ceil(size, cols)
        new_row == IF delta > 0
                   THEN (IF current_row + 1 < total_rows THEN current_row + 1
                         ELSE current_row)
                   ELSE IF current_row > 0 THEN current_row - 1 ELSE current_row
    IN  new_row * cols + current_col

row_step_wrapping(current, delta, cols, size) ==
    LET current_row == current \div cols
        current_col == current % cols
        total_rows == div_ceil(size, cols)
        new_row == IF delta > 0
                   THEN (IF current_row + 1 < total_rows THEN current_row + 1 ELSE 0)
                   ELSE IF current_row > 0 THEN current_row - 1 ELSE total_rows - 1
    IN  Min(new_row * cols + current_col, size - 1)

\* move_vertical's new selection in a grid of size entries laid out in cols columns.
row_step(current, delta, cols, size) ==
    LET current_row == current \div cols
        current_col == current % cols
        total_rows == div_ceil(size, cols)
        new_row == IF delta > 0
                   THEN (IF current_row + 1 < total_rows THEN current_row + 1
                         ELSE current_row)
                   ELSE IF current_row > 0 THEN current_row - 1 ELSE current_row
    IN  Min(new_row * cols + current_col, size - 1)

move_vertical(p, delta) ==
    CASE p.mode = "Basic16" ->
            select_basic(p, row_step(p.selected_basic, delta, p.cached_basic_cols, 16))
      [] p.mode = "Extended256" ->
            select_extended(p, row_step(p.selected_extended, delta,
                                        p.cached_extended_cols, 256))
      [] p.mode = "RgbInput" -> p

AsciiDigits == { "0", "1", "2", "3", "4", "5", "6", "7", "8", "9" }
HexLetters == { "A", "B", "C", "D", "E", "F" }
LowerHexLetters == { "a", "b", "c", "d", "e", "f" }

is_any_char(c) == TRUE

is_ascii_digit(c) == c \in AsciiDigits
is_ascii_hexdigit(c) == c \in AsciiDigits \cup HexLetters \cup LowerHexLetters

to_ascii_uppercase(c) ==
    CASE c = "a" -> "A" [] c = "b" -> "B" [] c = "c" -> "C"
      [] c = "d" -> "D" [] c = "e" -> "E" [] c = "f" -> "F"
      [] OTHER -> c

\* char::to_digit(16) of an upper-case hex digit.
HexValue(c) ==
    CASE c = "0" -> 0 [] c = "1" -> 1 [] c = "2" -> 2 [] c = "3" -> 3
      [] c = "4" -> 4 [] c = "5" -> 5 [] c = "6" -> 6 [] c = "7" -> 7
      [] c = "8" -> 8 [] c = "9" -> 9 [] c = "A" -> 10 [] c = "B" -> 11
      [] c = "C" -> 12 [] c = "D" -> 13 [] c = "E" -> 14 [] c = "F" -> 15

RECURSIVE Numeral(_, _)
Numeral(digits, radix) ==
    IF digits = <<>> THEN 0
    ELSE Numeral(SubSeq(digits, 1, Len(digits) - 1), radix) * radix
         + HexValue(digits[Len(digits)])

\* str::parse::<u8> of a string of ASCII digits: an Err is None.
parse_u8(digits) ==
    IF digits # <<>> /\ Numeral(digits, 10) < U8 THEN Some(Numeral(digits, 10)) ELSE None

\* u8::from_str_radix(_, 16) of two upper-case hex digits.
from_str_radix_16(digits) == Some(Numeral(digits, 16))

pop(str) == IF str = <<>> THEN str ELSE SubSeq(str, 1, Len(str) - 1)

update_rgb_color_decimal_first(p) ==
    LET in == p.rgb_input
        r == parse_u8(in.r)
        g == parse_u8(in.g)
        b == parse_u8(in.b)
    IN  IF IsSome(r) /\ IsSome(g) /\ IsSome(b)
        THEN [p EXCEPT !.current_color = Some(rgb(Unwrap(r), Unwrap(g), Unwrap(b)))]
        ELSE IF Len(in.hex) = 6
        THEN [p EXCEPT !.current_color =
                Some(rgb(Unwrap(from_str_radix_16(SubSeq(in.hex, 1, 2))),
                         Unwrap(from_str_radix_16(SubSeq(in.hex, 3, 4))),
                         Unwrap(from_str_radix_16(SubSeq(in.hex, 5, 6)))))]
        ELSE p

update_rgb_color(p) ==
    LET in == p.rgb_input
        hex_r == from_str_radix_16(SubSeq(in.hex, 1, 2))
        hex_g == from_str_radix_16(SubSeq(in.hex, 3, 4))
        hex_b == from_str_radix_16(SubSeq(in.hex, 5, 6))
        r == parse_u8(in.r)
        g == parse_u8(in.g)
        b == parse_u8(in.b)
    IN  IF in.hex # <<>> /\ Len(in.hex) = 6
           /\ IsSome(hex_r) /\ IsSome(hex_g) /\ IsSome(hex_b)
        THEN [p EXCEPT !.current_color =
                            Some(rgb(Unwrap(hex_r), Unwrap(hex_g), Unwrap(hex_b)))]
        ELSE IF IsSome(r) /\ IsSome(g) /\ IsSome(b)
        THEN [p EXCEPT !.current_color = Some(rgb(Unwrap(r), Unwrap(g), Unwrap(b)))]
        ELSE p

input_char(p, c) ==
    IF p.mode # "RgbInput" THEN p
    ELSE update_rgb_color(
        CASE p.rgb_input.editing_field = "Red" ->
                IF Len(p.rgb_input.r) < 3 /\ is_ascii_digit(c)
                THEN [p EXCEPT !.rgb_input.r = Append(@, c)] ELSE p
          [] p.rgb_input.editing_field = "Green" ->
                IF Len(p.rgb_input.g) < 3 /\ is_ascii_digit(c)
                THEN [p EXCEPT !.rgb_input.g = Append(@, c)] ELSE p
          [] p.rgb_input.editing_field = "Blue" ->
                IF Len(p.rgb_input.b) < 3 /\ is_ascii_digit(c)
                THEN [p EXCEPT !.rgb_input.b = Append(@, c)] ELSE p
          [] p.rgb_input.editing_field = "Hex" ->
                IF Len(p.rgb_input.hex) < 6 /\ is_ascii_hexdigit(c)
                THEN [p EXCEPT !.rgb_input.hex = Append(@, to_ascii_uppercase(c))]
                ELSE p)

backspace_clearing(p) ==
    IF p.mode # "RgbInput" THEN p
    ELSE LET popped ==
                CASE p.rgb_input.editing_field = "Red" -> [p EXCEPT !.rgb_input.r = pop(@)]
                  [] p.rgb_input.editing_field = "Green" -> [p EXCEPT !.rgb_input.g = pop(@)]
                  [] p.rgb_input.editing_field = "Blue" -> [p EXCEPT !.rgb_input.b = pop(@)]
                  [] p.rgb_input.editing_field = "Hex" -> [p EXCEPT !.rgb_input.hex = pop(@)]
         IN  update_rgb_color([popped EXCEPT !.current_color = None])

backspace(p) ==
    IF p.mode # "RgbInput" THEN p
    ELSE update_rgb_color(
        CASE p.rgb_input.editing_field = "Red" -> [p EXCEPT !.rgb_input.r = pop(@)]
          [] p.rgb_input.editing_field = "Green" -> [p EXCEPT !.rgb_input.g = pop(@)]
          [] p.rgb_input.editing_field = "Blue" -> [p EXCEPT !.rgb_input.b = pop(@)]
          [] p.rgb_input.editing_field = "Hex" -> [p EXCEPT !.rgb_input.hex = pop(@)])

get_selected_color(p) == p.current_color

\* (available_width / cell_width).max(1)
colors_per_row(available_width, cell_width) == Max(available_width \div cell_width, 1)

\* render, for the inner width of the content area the layout gave it.
render(p, available_width) ==
    IF ~p.is_open THEN p
    ELSE CASE p.mode = "Basic16" ->
                [p EXCEPT !.cached_basic_cols = colors_per_row(available_width, 6)]
           [] p.mode = "Extended256" ->
                [p EXCEPT !.cached_extended_cols = colors_per_row(available_width, 7)]
           [] p.mode = "RgbInput" -> p

render_extended_colors_first_page(p, available_width, available_height) ==
    LET colors_per_page ==
            colors_per_row(available_width, 7)
            * (IF available_height > 3 THEN (available_height - 2) \div 2 ELSE 1)
    IN  [page_index |-> 0, start_index |-> 0,
         end_index |-> Min(colors_per_page, 256)]

\* The page render_extended_colors draws for the inner width and height of the
\* content area: its index and the range start_index .. end_index - 1 of its colors.
render_extended_colors(p, available_width, available_height) ==
    LET logical_rows_available ==
            IF available_height > 3 THEN (available_height - 2) \div 2 ELSE 1
        colors_per_page == colors_per_row(available_width, 7) * logical_rows_available
        page_index == p.selected_extended \div colors_per_page
        start_index == page_index * colors_per_page
    IN  [page_index |-> page_index, start_index |-> start_index,
         end_index |-> Min(start_index + colors_per_page, 256)]

(***************************************************************************)
(* separator_editor.rs: the separator editor.  A String is the sequence of *)
(* its chars.                                                              *)
(***************************************************************************)
I32_MAX == 2147483647
I32_MIN == -I32_MAX - 1

SeparatorEditor_presets ==
    << [name |-> "Pipe", value |-> << " ", "|", " " >>, description |-> "Classic pipe"],
       [name |-> "Thin", value |-> << " ", "U+2502", " " >>,
        description |-> "Thin vertical line"],
       [name |-> "Arrow", value |-> << POWERLINE_ARROW >>,
        description |-> "Powerline arrow"],
       [name |-> "Space", value |-> << " ", " " >>, description |-> "Double space"],
       [name |-> "Dot", value |-> << " ", "U+2022", " " >>,
        description |-> "Middle dot"] >>

\* #[derive(Default)]
SeparatorEditor_default == [is_open |-> FALSE, input |-> <<>>, selected_preset |-> None]

\* The index of the first preset whose value is value, None when there is none.
first_preset(value) ==
    LET found == { i \in DOMAIN SeparatorEditor_presets :
                     SeparatorEditor_presets[i].value = value }
    IN  IF found = {} THEN None
        ELSE Some(Only({ i \in found : \A j \in found : i <= j }) - 1)

SeparatorEditor_open(ed, current_separator) ==
    [ed EXCEPT !.is_open = TRUE, !.input = current_separator,
               !.selected_preset = first_preset(current_separator)]

SeparatorEditor_close(ed) ==
    [ed EXCEPT !.is_open = FALSE, !.input = <<>>, !.selected_preset = None]

\* char::is_control, on the characters the model types.
is_control(c) == c \in { "\t", "\n", "\r" }

SeparatorEditor_input_char(ed, c) ==
    IF ~is_control(c)
    THEN [ed EXCEPT !.input = Append(@, c), !.selected_preset = None]
    ELSE ed

SeparatorEditor_backspace(ed) ==
    [ed EXCEPT !.input = pop(@), !.selected_preset = None]

clear_input(ed) == [ed EXCEPT !.input = <<>>, !.selected_preset = None]

\* current as i32 + delta, where 0 <= current: the sum when it is an i32, else
\* None; the sum can only be too large.
checked_add(current, delta) ==
    IF delta > I32_MAX - current THEN None ELSE Some(current + delta)

\* The same sum modulo 2^32, as a build without overflow checks computes it.
wrapping_add(current, delta) ==
    IF delta > I32_MAX - current
    THEN I32_MIN + ((current - 1) - (I32_MAX - delta))
    ELSE current + delta

clamp(value, min, max) == IF value < min THEN min ELSE IF value > max THEN max ELSE value

\* move_preset_selection in a build with or without overflow checks: the sum
\* current + delta panics in the first and wraps in the second when it is not
\* an i32.
move_preset_selection(ed, delta, overflow_checks) ==
    LET presets == SeparatorEditor_presets
        overflows == IsSome(ed.selected_preset)
                     /\ checked_add(Unwrap(ed.selected_preset), delta) = None
        new_selection ==
            IF IsSome(ed.selected_preset)
            THEN Some(clamp(wrapping_add(Unwrap(ed.selected_preset), delta),
                            0, Len(presets) - 1))
            ELSE IF delta > 0 THEN Some(0)
            ELSE Some(Len(presets) - 1)
    IN  IF overflows /\ overflow_checks
        THEN [state |-> "panicked", editor |-> ed]
        ELSE [state |-> "returned",
              editor |-> [ed EXCEPT !.selected_preset = new_selection,
                                    !.input = presets[Unwrap(new_selection) + 1].value]]

(***************************************************************************)
(* The render pipeline as a state machine                                  *)
(***************************************************************************)
MaxSegs == 3

with_segment(cfg, id, item) ==
    CASE id = "Model" -> [cfg EXCEPT !.segments.model = item]
      [] id = "Directory" -> [cfg EXCEPT !.segments.directory = item]
      [] id = "Git" -> [cfg EXCEPT !.segments.git = item]
      [] id = "Context" -> [cfg EXCEPT !.segments.context = item]
      [] id = "Usage" -> [cfg EXCEPT !.segments.usage = item]

RECURSIVE EditSegments(_, _, _, _)
EditSegments(cfg, i, enabled, unset_bg) ==
    IF i > Len(SegmentOrder) THEN cfg
    ELSE LET id == SegmentOrder[i]
             item == get_segment_config(cfg, id)
         IN  EditSegments(
                with_segment(cfg, id,
                    [item EXCEPT !.enabled = enabled[id],
                                 !.colors.background =
                                    IF id \in unset_bg THEN None ELSE @]),
                i + 1, enabled, unset_bg)

\* A preset after the edits the configuration page can make to it.
EditedConfig(theme_name, style, separator, enabled, unset_bg) ==
    EditSegments([Unwrap(get_builtin(theme_name)) EXCEPT !.style = style,
                                                         !.separator = separator],
                 1, enabled, unset_bg)

Separators == { " U+2502 ", " | " }

\* Powerline ignores the separator; the other modes ignore the background.
Configs ==
    { EditedConfig(t, "Powerline", "U+E0B0", en, un) :
        t \in { "cometix", "nord" }, en \in [SegmentId -> BOOLEAN],
        un \in { {}, {"Directory"} } }
    \cup
    { EditedConfig(t, st, sep, en, {}) :
        t \in { "cometix", "nord" }, st \in { "Plain", "NerdFont" },
        sep \in Separators, en \in [SegmentId -> BOOLEAN] }

StatusLineContext(cwd, tokens, rate, git_preview) ==
    [model_name |-> "gpt-5", cwd |-> cwd,
     context_used_tokens |-> tokens[1], context_window_size |-> tokens[2],
     rate_limit_percent |-> rate[1], rate_limit_resets_at |-> rate[2],
     git_preview |-> git_preview]

GitPreviewData(branch, status, ahead, behind) ==
    [branch |-> branch, status |-> status, ahead |-> ahead, behind |-> behind]

Contexts ==
    { StatusLineContext(cwd, tokens, rate, preview) :
        cwd \in { Path(FALSE, <<>>), Path(TRUE, << "home", "user" >>) },
        tokens \in { << None, None >>, << Some(500000), Some(1000000) >> },
        rate \in { << None, None >>, << Some(50), Some("2h") >> },
        preview \in { None, Some(GitPreviewData("", "", 0, 0)),
                      Some(GitPreviewData("main", "U+2713", 1, 0)) } }

GitReports ==
    { None, Some([branch |-> "dev", status |-> "Dirty", ahead |-> 0, behind |-> 2]) }

\* The data a caller of add_segment passes for a segment.
SampleData(id) ==
    CASE id = "Model" -> SegmentData_new("gpt-5")
      [] id = "Directory" -> with_metadata(SegmentData_new("user"), "dynamic_icon", "")
      [] id = "Git" -> with_secondary(SegmentData_new("main"), "U+2713")
      [] id = "Context" -> SegmentData_new("- " \o DOT \o " - tokens")
      [] id = "Usage" -> with_metadata(SegmentData_new("50%"), "dynamic_icon", "U+F0AA1")

NoOp == [op |-> "none", arg |-> <<>>, before |-> DefaultPicker]

InitRender ==
    /\ config \in Configs
    /\ segments = <<>>
    /\ line = <<>>
    /\ pc = "new"
    /\ input = None
    /\ picker = DefaultPicker
    /\ editor = SeparatorEditor_default
    /\ last = NoOp
    /\ nops = 0

\* build_statusline(config, ctx): a renderer holding the collected segments.
BuildStatusline ==
    /\ pc = "new"
    /\ \E ctx \in Contexts, git_info \in GitReports :
        /\ segments' = build_statusline(config, ctx, git_info)
        /\ input' = Some([ctx |-> ctx, git_info |-> git_info])
    /\ pc' = "built"
    /\ UNCHANGED <<config, line, editor>>
    /\ UNCHANGED pickerVars

\* StatusLineRenderer::add_segment, called on a renderer made by new().
AddSegment ==
    /\ pc \in { "new", "added" }
    /\ Len(segments) < MaxSegs
    /\ \E id \in SegmentId : segments' = add_segment(segments, id, SampleData(id))
    /\ pc' = "added"
    /\ UNCHANGED <<config, line, input, editor>>
    /\ UNCHANGED pickerVars

RenderLine ==
    /\ pc \in { "new", "built", "added" }
    /\ IF render_line_panics(config, segments)
       THEN pc' = "panicked" /\ line' = line
       ELSE line' = render_line(config, segments) /\ pc' = "rendered"
    /\ UNCHANGED <<config, segments, input, editor>>
    /\ UNCHANGED pickerVars

NextRender == BuildStatusline \/ AddSegment \/ RenderLine

SpecRender == InitRender /\ [][NextRender]_vars

MaxApplies == 1

\* The theme files that may lie in the themes directory: none, or a theme the
\* user saved from an edited configuration.
ThemeFiles ==
    { None,
      Some(EditedConfig("nord", "Plain", " | ",
                        [id \in SegmentId |-> id # "Git"], { "Model" })) }

InitTheme ==
    /\ \E c \in Configs, enabled \in BOOLEAN : config = [c EXCEPT !.enabled = enabled]
    /\ segments = <<>>
    /\ line = <<>>
    /\ pc = "loaded"
    /\ input = None
    /\ picker = DefaultPicker
    /\ editor = SeparatorEditor_default
    /\ last = NoOp
    /\ nops = 0

\* CxLineConfig::apply_theme; input keeps the call and the configuration before it.
ApplyTheme ==
    /\ nops < MaxApplies
    /\ \E theme_name \in { THEME_NAMES[i] : i \in DOMAIN THEME_NAMES } \cup { "solarized" },
          file \in ThemeFiles :
        /\ config' = apply_theme(config, theme_name, file)
        /\ input' = Some([theme_name |-> theme_name, file |-> file, before |-> config])
    /\ pc' = "themed"
    /\ nops' = nops + 1
    /\ UNCHANGED << segments, line, picker, last, editor >>

NextTheme == ApplyTheme

SpecTheme == InitTheme /\ [][NextTheme]_vars

(***************************************************************************)
(* Properties of the render pipeline                                       *)
(***************************************************************************)
Rendered == pc = "rendered"
PlainMode == config.style # "Powerline"

\* The entries of the renderer's list whose segment is enabled, in list order.
E == SelectSeq(segments, LAMBDA s : get_segment_config(config, s[1]).enabled)
Disabled == SelectSeq(segments, LAMBDA s : ~get_segment_config(config, s[1]).enabled)

BgOf(entry) == background_color(get_segment_config(config, entry[1]).colors)

IsArrow(span) == span.content = POWERLINE_ARROW
IsSeparator(span) == span.style.dim

\* The positions in the line of the marks (arrows or separators) between segments.
Marks(IsMark(_)) == { k \in DOMAIN line : IsMark(line[k]) }
NthMark(IsMark(_), i) ==
    CHOOSE k \in Marks(IsMark) : Cardinality({ j \in Marks(IsMark) : j < k }) = i - 1

\* The spans between mark i-1 and mark i: those of the i-th rendered segment.
BlockStart(IsMark(_), i) == IF i = 1 THEN 1 ELSE NthMark(IsMark, i - 1) + 1
BlockEnd(IsMark(_), i) ==
    IF i = Cardinality(Marks(IsMark)) + 1 THEN Len(line) ELSE NthMark(IsMark, i) - 1
Block(IsMark(_), i) == SubSeq(line, BlockStart(IsMark, i), BlockEnd(IsMark, i))

HasContent(spans, text) == \E k \in DOMAIN spans : spans[k].content = text

\* The marks split the line into one non-empty block per enabled entry, in order,
\* with no mark first, last or next to another one.
MarksInterpose(IsMark(_)) ==
    /\ Cardinality(Marks(IsMark)) = Max(Len(E) - 1, 0)
    /\ Len(E) = 0 => line = <<>>
    /\ \A i \in 1..Len(E) :
        /\ BlockStart(IsMark, i) <= BlockEnd(IsMark, i)
        /\ HasContent(Block(IsMark, i), E[i][2].primary)

\* C1: in Powerline mode the line has exactly max(n-1, 0) arrows for the n enabled
\* entries E of the list, the i-th directly after the spans of E[i] (which end with
\* the right padding) and none after the last; the arrow after E[i] has E[i]'s
\* background as foreground and E[i+1]'s background as background (default when
\* unset); disabled entries bring no arrow and are never the next segment.
C1_PowerlineArrows ==
    (Rendered /\ ~PlainMode) =>
        /\ MarksInterpose(IsArrow)
        /\ \A i \in 1..(Len(E) - 1) :
            LET arrow == line[NthMark(IsArrow, i)]
                block == Block(IsArrow, i)
            IN  /\ arrow.style.fg = BgOf(E[i])
                /\ arrow.style.bg = BgOf(E[i + 1])
                /\ block[1].content = " " /\ block[Len(block)].content = " "
                /\ block[1].style.bg = BgOf(E[i])

C1_Witness ==
    /\ Rendered /\ ~PlainMode
    /\ Len(E) = 2 /\ Len(Disabled) = 1
    /\ ~get_segment_config(config, segments[2][1]).enabled
    /\ IsSome(BgOf(E[1])) /\ IsSome(BgOf(E[2])) /\ BgOf(E[1]) # BgOf(E[2])
    /\ Cardinality(Marks(IsArrow)) = 1

\* C2: in Plain and NerdFont modes every separator span of the rendered line
\* carries the configured separator string (CxLineConfig.separator), styled dim.
C2_SeparatorIsConfigured ==
    (Rendered /\ PlainMode) =>
        \A k \in DOMAIN line : IsSeparator(line[k]) => line[k].content = config.separator

\* The glyph a segment is drawn with: the dynamic icon when the metadata has one
\* (and, under the non-empty rule, it is not the empty string), else the icon
\* configured for the style mode.
Glyph(entry, nonempty_rule) ==
    LET m == entry[2].metadata
        icon == get_segment_config(config, entry[1]).icon
    IN  IF "dynamic_icon" \in DOMAIN m /\ (nonempty_rule => m["dynamic_icon"] # "")
        THEN m["dynamic_icon"]
        ELSE IF config.style = "Plain" THEN icon.plain ELSE icon.nerd_font

\* C3: in Plain and NerdFont modes the line has exactly max(k-1, 0) separator
\* spans for the k enabled entries of the list, each between two consecutive
\* rendered segments: none first, none last, none next to another; a disabled
\* entry of the list brings neither spans nor a separator.
C3_SeparatorsInterpose ==
    (Rendered /\ PlainMode) =>
        /\ MarksInterpose(IsSeparator)
        /\ \A i \in 1..Len(E) : \A k \in DOMAIN Block(IsSeparator, i) :
                LET c == Block(IsSeparator, i)[k].content
                IN  \/ c = E[i][2].primary
                    \/ c = " " \o E[i][2].secondary
                    \/ c = Glyph(E[i], FALSE) \o " "

C3_Witness ==
    /\ Rendered /\ PlainMode
    /\ Len(E) = 2 /\ Len(Disabled) = 1
    /\ ~get_segment_config(config, segments[2][1]).enabled
    /\ Cardinality(Marks(IsSeparator)) = 1

\* The texts of the spans of one segment drawn with glyph g.
SegmentTexts(entry, g) ==
    (IF PlainMode THEN <<>> ELSE << " " >>)
    \o (IF g # "" THEN << g \o " " >> ELSE <<>>)
    \o << entry[2].primary >>
    \o (IF entry[2].secondary # "" THEN << " " \o entry[2].secondary >> ELSE <<>>)
    \o (IF PlainMode THEN <<>> ELSE << " " >>)

RECURSIVE LineTexts(_, _)
LineTexts(entries, nonempty_rule) ==
    IF entries = <<>> THEN <<>>
    ELSE SegmentTexts(entries[1], Glyph(entries[1], nonempty_rule))
         \o LineTexts(Tail(entries), nonempty_rule)

\* The texts of the line's spans, the arrows and separators left out.
DrawnTexts ==
    LET body == SelectSeq(line, LAMBDA sp : ~IsSeparator(sp) /\ ~IsArrow(sp))
    IN  [k \in DOMAIN body |-> body[k].content]

\* C4 as claimed: the glyph drawn is metadata["dynamic_icon"] when present and
\* non-empty, else the configured icon for the style mode; an empty dynamic_icon
\* falls through to the configured icon.
C4_DynamicIconIfNonEmpty == Rendered => DrawnTexts = LineTexts(E, TRUE)

\* C4 as amended: the glyph drawn is metadata["dynamic_icon"] whenever the key is
\* present, also when its value is the empty string (no icon span is drawn then),
\* and the configured icon for the style mode only when the key is absent.
C4_DynamicIconIfPresent == Rendered => DrawnTexts = LineTexts(E, FALSE)

C4_Witness ==
    /\ Rendered
    /\ \E i \in DOMAIN E : "dynamic_icon" \in DOMAIN E[i][2].metadata
                           /\ E[i][2].metadata["dynamic_icon"] = ""
    /\ \E i \in DOMAIN E : "dynamic_icon" \in DOMAIN E[i][2].metadata
                           /\ E[i][2].metadata["dynamic_icon"] # ""
    /\ \E i \in DOMAIN E : "dynamic_icon" \notin DOMAIN E[i][2].metadata

ClaimedOrder == << "Model", "Directory", "Git", "Context", "Usage" >>
ClaimedRank(id) == CHOOSE i \in DOMAIN ClaimedOrder : ClaimedOrder[i] = id

\* C5: the list build_statusline hands to the renderer is in the order Model,
\* Directory, Git, Context, Usage with each id at most once, and holds a segment
\* exactly when it is enabled and its collector returned data (that data).
C5_FixedOrder ==
    pc = "built" =>
        LET given == Unwrap(input) IN
        /\ \A i, j \in DOMAIN segments :
              i < j => ClaimedRank(segments[i][1]) < ClaimedRank(segments[j][1])
        /\ \A id \in SegmentId :
              LET data == collect(id, given.ctx, given.git_info)
                  kept == get_segment_config(config, id).enabled /\ IsSome(data)
              IN  /\ kept => \E i \in DOMAIN segments : segments[i] = << id, Unwrap(data) >>
                  /\ ~kept => \A i \in DOMAIN segments : segments[i][1] # id

C5_Witness ==
    /\ pc = "built"
    /\ Len(segments) = 3
    /\ segments[1][1] = "Model" /\ segments[2][1] = "Git" /\ segments[3][1] = "Usage"
    /\ get_segment_config(config, "Directory").enabled
    /\ ~get_segment_config(config, "Context").enabled

(***************************************************************************)
(* The color picker as a state machine: one action per public method.      *)
(***************************************************************************)
MaxOps == 6
MaxGridOps == 1

Deltas == { -1, 1 }
InitialColors == { None, Some(c16(3)), Some(rgb(1, 2, 3)) }
Targets == { "TextColor", "BackgroundColor" }
Chars == { "2", "f", "x" }
\* Inner widths of the content area: narrower than one cell, and a few cells wide.
Widths == { 0, 20, 50 }

Did(op, arg) == [op |-> op, arg |-> arg, before |-> picker]

IdleRenderer ==
    /\ config = get_default
    /\ segments = <<>>
    /\ line = <<>>
    /\ pc = "idle"
    /\ input = None
    /\ editor = SeparatorEditor_default

Open(bound) ==
    /\ nops < bound
    /\ \E target \in Targets, current \in InitialColors :
        /\ picker' = open(picker, target, current)
        /\ last' = Did("open", << target, current >>)
    /\ nops' = nops + 1
    /\ UNCHANGED renderVars

Close(bound) ==
    /\ nops < bound
    /\ picker' = close(picker)
    /\ last' = Did("close", <<>>)
    /\ nops' = nops + 1
    /\ UNCHANGED renderVars

CycleMode(bound) ==
    /\ nops < bound
    /\ picker' = cycle_mode(picker)
    /\ last' = Did("cycle_mode", <<>>)
    /\ nops' = nops + 1
    /\ UNCHANGED renderVars

MoveHorizontal(bound) ==
    /\ nops < bound
    /\ \E delta \in Deltas :
        /\ picker' = move_horizontal(picker, delta)
        /\ last' = Did("move_horizontal", << delta >>)
    /\ nops' = nops + 1
    /\ UNCHANGED renderVars

MoveVertical(bound) ==
    /\ nops < bound
    /\ \E delta \in Deltas :
        /\ picker' = move_vertical(picker, delta)
        /\ last' = Did("move_vertical", << delta >>)
    /\ nops' = nops + 1
    /\ UNCHANGED renderVars

InputChar(bound) ==
    /\ nops < bound
    /\ \E c \in Chars :
        /\ picker' = input_char(picker, c)
        /\ last' = Did("input_char", << c >>)
    /\ nops' = nops + 1
    /\ UNCHANGED renderVars

Backspace(bound) ==
    /\ nops < bound
    /\ picker' = backspace(picker)
    /\ last' = Did("backspace", <<>>)
    /\ nops' = nops + 1
    /\ UNCHANGED renderVars

Render(bound) ==
    /\ nops < bound
    /\ \E available_width \in Widths :
        /\ picker' = render(picker, available_width)
        /\ last' = Did("render", << available_width >>)
    /\ nops' = nops + 1
    /\ UNCHANGED renderVars

\* A picker as ColorPicker::default() makes it, then any MaxOps calls.
InitPicker ==
    /\ IdleRenderer
    /\ picker = DefaultPicker
    /\ last = NoOp
    /\ nops = 0

NextPicker ==
    \/ Open(MaxOps)
    \/ Close(MaxOps)
    \/ CycleMode(MaxOps)
    \/ MoveHorizontal(MaxOps)
    \/ MoveVertical(MaxOps)
    \/ InputChar(MaxOps)
    \/ Backspace(MaxOps)
    \/ Render(MaxOps)

SpecPicker == InitPicker /\ [][NextPicker]_vars

\* The open pickers with a grid showing: opened, cycled to the grid and drawn
\* at some width, then either left there or moved to some index of the grid.
GridPickers ==
    LET basic == { render(open(DefaultPicker, "TextColor", None), w) : w \in Widths }
        extended == { render(cycle_mode(open(DefaultPicker, "TextColor", None)), w) :
                        w \in Widths }
    IN  basic \cup { select_basic(p, k) : p \in basic, k \in 0 .. 15 }
        \cup extended \cup { select_extended(p, k) : p \in extended, k \in 0 .. 255 }

InitGrid ==
    /\ IdleRenderer
    /\ picker \in GridPickers
    /\ last = NoOp
    /\ nops = 0

NextGrid ==
    \/ Open(MaxGridOps)
    \/ Close(MaxGridOps)
    \/ CycleMode(MaxGridOps)
    \/ MoveHorizontal(MaxGridOps)
    \/ MoveVertical(MaxGridOps)
    \/ InputChar(MaxGridOps)
    \/ Backspace(MaxGridOps)
    \/ Render(MaxGridOps)

SpecGrid == InitGrid /\ [][NextGrid]_vars

MaxRgbOps == 2

RECURSIVE Typed(_, _)
\* input_char called with each character of chars in turn.
Typed(p, chars) ==
    IF chars = <<>> THEN p ELSE Typed(input_char(p, Head(chars)), Tail(chars))

\* The picker after open() and two cycle_mode calls, with r, g, b and hex typed
\* into their fields one after the other (a move right between them) and then
\* turns more moves to the right.
Entered(current, r, g, b, hex, turns) ==
    LET start == cycle_mode(cycle_mode(open(DefaultPicker, "TextColor", current)))
        red == Typed(start, r)
        green == Typed(move_horizontal(red, 1), g)
        blue == Typed(move_horizontal(green, 1), b)
        all == Typed(move_horizontal(blue, 1), hex)
    IN  CASE turns = 0 -> all
          [] turns = 1 -> move_horizontal(all, 1)
          [] turns = 2 -> move_horizontal(move_horizontal(all, 1), 1)
          [] turns = 3 -> move_horizontal(move_horizontal(move_horizontal(all, 1), 1), 1)

RgbEntries ==
    { Entered(current, r, g, b, hex, turns) :
        current \in { None, Some(c16(3)) },
        r \in { <<>>, << "2", "5" >>, << "2", "5", "5" >>, << "2", "5", "6" >> },
        g \in { <<>>, << "0" >>, << "0", "0", "7" >> },
        b \in { <<>>, << "9", "9" >> },
        hex \in { <<>>, << "F", "F", "0", "0", "a" >>,
                  << "1", "2", "a", "b", "E", "f" >> },
        turns \in 0 .. 3 }

InitRgb ==
    /\ IdleRenderer
    /\ picker \in RgbEntries
    /\ last = NoOp
    /\ nops = 0

NextRgb ==
    \/ Open(MaxRgbOps)
    \/ Close(MaxRgbOps)
    \/ CycleMode(MaxRgbOps)
    \/ MoveHorizontal(MaxRgbOps)
    \/ MoveVertical(MaxRgbOps)
    \/ InputChar(MaxRgbOps)
    \/ Backspace(MaxRgbOps)
    \/ Render(MaxRgbOps)

SpecRgb == InitRgb /\ [][NextRgb]_vars

(***************************************************************************)
(* The pages of the 256-color grid                                         *)
(***************************************************************************)
MaxPageOps == 1

Heights == { 0, 3, 4, 9 }

InitPage ==
    /\ IdleRenderer
    /\ picker \in { p \in GridPickers : p.mode = "Extended256" }
    /\ last = NoOp
    /\ nops = 0

\* render in the 256-color mode, for a terminal of some size; line keeps the
\* page that was drawn.
RenderPage ==
    /\ nops < MaxPageOps
    /\ picker.is_open /\ picker.mode = "Extended256"
    /\ \E available_width \in Widths, available_height \in Heights :
        /\ picker' = render(picker, available_width)
        /\ line' = << render_extended_colors(picker, available_width, available_height) >>
        /\ last' = Did("render_extended_colors", << available_width, available_height >>)
    /\ nops' = nops + 1
    /\ UNCHANGED << config, segments, pc, input, editor >>

NextPage ==
    \/ MoveHorizontal(MaxPageOps)
    \/ MoveVertical(MaxPageOps)
    \/ RenderPage

SpecPage == InitPage /\ [][NextPage]_vars

(***************************************************************************)
(* The collectors, one call at a time                                      *)
(***************************************************************************)
MaxCollects == 1

\* Token counts around the thresholds of format_tokens and half way between tenths.
TokenCounts ==
    (0..1200) \cup { 50 * i : i \in 0..400 } \cup { 998950 + 50 * i : i \in 0..40 }
    \cup { 999949, 999951, 999999 } \cup { 50000 * i : i \in 0..100 }
    \cup { 200000000 }

\* Working directories: the root, the empty path, absolute and relative paths,
\* and paths whose last component is ".." or ".".
Paths ==
    { Path(TRUE, <<>>), Path(FALSE, <<>>),
      Path(TRUE, << "home", "user", "projects", "codex" >>),
      Path(TRUE, << "home", "user" >>), Path(FALSE, << "some", "path" >>),
      Path(FALSE, << ".." >>), Path(FALSE, << "some", ".." >>),
      Path(TRUE, << "home", ".." >>), Path(FALSE, << "." >>) }

CollectContexts ==
    { StatusLineContext(Path(TRUE, << "home", "user" >>), << used, window >>,
                        << None, None >>, None) :
        used \in { None } \cup { Some(t) : t \in { 0, 500, 1500, 57000, 58000, 290000,
                                                  150000, 200000, 500000, 1200000 } },
        window \in { None, Some(0), Some(200000), Some(1000000) } }
    \cup { StatusLineContext(Path(TRUE, << "home", "user" >>), << None, None >>,
                             << Some(percent), resets_at >>, None) :
             percent \in 0..100, resets_at \in { None, Some("2h") } }
    \cup { StatusLineContext(cwd, << None, None >>, << None, None >>, None) :
             cwd \in Paths }

InitCollect ==
    /\ config = get_default
    /\ segments = <<>>
    /\ line = <<>>
    /\ \/ pc = "context" /\ \E ctx \in CollectContexts :
                                input = Some([ctx |-> ctx, git_info |-> None])
       \/ pc = "idle" /\ input = None
    /\ picker = DefaultPicker
    /\ editor = SeparatorEditor_default
    /\ last = NoOp
    /\ nops = 0

\* Segment::collect of one segment; segments keeps what it returned, if anything.
Collect ==
    /\ pc = "context"
    /\ nops < MaxCollects
    /\ \E id \in SegmentId :
        /\ segments' = LET data == collect(id, Unwrap(input).ctx, Unwrap(input).git_info)
                       IN  IF IsSome(data) THEN add_segment(<<>>, id, Unwrap(data))
                           ELSE <<>>
        /\ last' = Did("collect", << id >>)
    /\ pc' = "collected"
    /\ nops' = nops + 1
    /\ UNCHANGED << config, line, input, picker, editor >>

\* format_tokens(tokens); line keeps the text it returned.
FormatTokens ==
    /\ pc = "idle"
    /\ nops < MaxCollects
    /\ \E tokens \in TokenCounts :
        /\ line' = << format_tokens(tokens) >>
        /\ last' = Did("format_tokens", << tokens >>)
    /\ pc' = "formatted"
    /\ nops' = nops + 1
    /\ UNCHANGED << config, segments, input, picker, editor >>

\* get_circle_icon(n as f64 / d as f64); line keeps the glyph it returned.
CircleIcon ==
    /\ pc = "idle"
    /\ nops < MaxCollects
    /\ \E d \in { 3, 8, 100, 1000 } : \E n \in 0..(d + d \div 4) :
        /\ line' = << get_circle_icon(f64_div(n, d)) >>
        /\ last' = Did("get_circle_icon", << n, d >>)
    /\ pc' = "glyph"
    /\ nops' = nops + 1
    /\ UNCHANGED << config, segments, input, picker, editor >>

NextCollect ==
    \/ Collect
    \/ FormatTokens
    \/ CircleIcon

SpecCollect == InitCollect /\ [][NextCollect]_vars

(***************************************************************************)
(* update_action.rs: the update action                                     *)
(***************************************************************************)
detect_update_action_bun_first(managed_by_npm, managed_by_bun) ==
    IF managed_by_bun THEN Some("BunGlobalLatest")
    ELSE Some("NpmGlobalLatest")

detect_update_action(managed_by_npm, managed_by_bun) ==
    IF managed_by_npm THEN Some("NpmGlobalLatest")
    ELSE IF managed_by_bun THEN Some("BunGlobalLatest")
    ELSE Some("NpmGlobalLatest")

\* env gives each variable's value, None when it is not set.
get_update_action(env) ==
    detect_update_action(IsSome(env["CODEX_MANAGED_BY_NPM"]),
                         IsSome(env["CODEX_MANAGED_BY_BUN"]))

MaxDetects == 1

EnvValues ==
    { None } \cup { Some(v) : v \in { "", "0", "1", "true", "false", "yes", "no",
                                      "npm", "bun" } }

InitUpdate ==
    /\ config = get_default
    /\ segments = <<>>
    /\ line = <<>>
    /\ pc = "env"
    /\ input \in { Some(env) :
                    env \in [{ "CODEX_MANAGED_BY_NPM", "CODEX_MANAGED_BY_BUN" }
                             -> EnvValues] }
    /\ picker = DefaultPicker
    /\ editor = SeparatorEditor_default
    /\ last = NoOp
    /\ nops = 0

\* get_update_action(); line keeps what it returned.
GetUpdateAction ==
    /\ pc = "env"
    /\ nops < MaxDetects
    /\ line' = get_update_action(Unwrap(input))
    /\ last' = [op |-> "get_update_action",
                arg |-> << IsSome(Unwrap(input)["CODEX_MANAGED_BY_NPM"]),
                           IsSome(Unwrap(input)["CODEX_MANAGED_BY_BUN"]) >>,
                before |-> picker]
    /\ pc' = "detected"
    /\ nops' = nops + 1
    /\ UNCHANGED << config, segments, input, picker, editor >>

\* detect_update_action(managed_by_npm, managed_by_bun), as the tests call it.
DetectUpdateAction ==
    /\ pc = "env"
    /\ nops < MaxDetects
    /\ \E managed_by_npm, managed_by_bun \in BOOLEAN :
        /\ line' = detect_update_action(managed_by_npm, managed_by_bun)
        /\ last' = [op |-> "detect_update_action",
                    arg |-> << managed_by_npm, managed_by_bun >>, before |-> picker]
    /\ pc' = "detected"
    /\ nops' = nops + 1
    /\ UNCHANGED << config, segments, input, picker, editor >>

NextUpdate == GetUpdateAction \/ DetectUpdateAction

SpecUpdate == InitUpdate /\ [][NextUpdate]_vars

(***************************************************************************)
(* AnsiColor written to and read from a configuration document             *)
(***************************************************************************)
MaxReads == 1

\* Every Color16, every Color256, and the Rgb colors with channels at the ends
\* and in the middle of u8.
AnsiColors ==
    { c16(n) : n \in 0..(U8 - 1) } \cup { c256(n) : n \in 0..(U8 - 1) }
    \cup { rgb(r, g, b) : r, g, b \in { 0, 1, 16, U8 - 1 } }

InitColor ==
    /\ config = get_default
    /\ segments = <<>>
    /\ line = <<>>
    /\ pc = "color"
    /\ input \in { Some(c) : c \in AnsiColors }
    /\ picker = DefaultPicker
    /\ editor = SeparatorEditor_default
    /\ last = NoOp
    /\ nops = 0

\* The color in input is serialized; line keeps the table written.
Serialize ==
    /\ pc = "color"
    /\ line' = << serialize(Unwrap(input)) >>
    /\ pc' = "written"
    /\ UNCHANGED << config, segments, input, picker, last, nops, editor >>

\* The table in line is deserialized; segments keeps what was read.
Deserialize ==
    /\ pc = "written"
    /\ nops < MaxReads
    /\ segments' = deserialize(line[1])
    /\ pc' = "read"
    /\ nops' = nops + 1
    /\ UNCHANGED << config, line, input, picker, last, editor >>

NextColor == Serialize \/ Deserialize

SpecColor == InitColor /\ [][NextColor]_vars

(***************************************************************************)
(* Loading the configuration and the themes                                *)
(***************************************************************************)
MaxLoads == 1

\* What to_string_pretty writes for a configuration.
Saved(cfg) == Document("table", cfg)

Documents ==
    { Document("absent", << >>), Document("unreadable", << >>),
      Document("malformed", << >>), Document("table", << >>),
      Document("table", [f \in { "style" } |-> "Powerline"]),
      Document("table", [f \in { "segments" } |->
                            [k \in { "git" } |->
                                [get_nord.segments.git EXCEPT !.enabled = FALSE]]]),
      Saved(EditedConfig("gruvbox", "Plain", " | ",
                         [id \in SegmentId |-> id # "Usage"], {})) }

InitLoad ==
    /\ config = get_default
    /\ segments = <<>>
    /\ line = <<>>
    /\ pc = "stored"
    /\ \E config_doc, cometix_doc, theme_doc \in Documents :
       \E theme_name \in { THEME_NAMES[i] : i \in DOMAIN THEME_NAMES } \cup { "solarized" } :
          input = Some([config_doc |-> config_doc, cometix_doc |-> cometix_doc,
                        theme_name |-> theme_name, theme_doc |-> theme_doc])
    /\ picker = DefaultPicker
    /\ editor = SeparatorEditor_default
    /\ last = NoOp
    /\ nops = 0

\* CxLineConfig::load()
Load ==
    /\ pc = "stored"
    /\ nops < MaxLoads
    /\ config' = load(Unwrap(input).config_doc, Unwrap(input).cometix_doc)
    /\ pc' = "loaded"
    /\ nops' = nops + 1
    /\ UNCHANGED << segments, line, input, picker, last, editor >>

\* ThemePresets::get_theme(theme_name)
GetTheme ==
    /\ pc = "stored"
    /\ nops < MaxLoads
    /\ config' = get_theme(Unwrap(input).theme_name,
                           load_from_file(Unwrap(input).theme_doc))
    /\ pc' = "theme"
    /\ nops' = nops + 1
    /\ UNCHANGED << segments, line, input, picker, last, editor >>

NextLoad == Load \/ GetTheme

SpecLoad == InitLoad /\ [][NextLoad]_vars

(***************************************************************************)
(* The separator editor as a state machine: one action per public method.  *)
(* A call that panics ends the run.                                        *)
(***************************************************************************)
MaxEdits == 3

EditorDeltas == { I32_MIN, -1, 0, 1, 3, I32_MAX }
EditorChars == { "|", " ", "\t" }
CurrentSeparators ==
    { SeparatorEditor_presets[i].value : i \in DOMAIN SeparatorEditor_presets }
    \cup { <<>>, << "-" >>, << " ", "|" >> }

EditorDid(op, arg) == [op |-> op, arg |-> arg, before |-> editor]

OpenEditor ==
    /\ pc = "idle" /\ nops < MaxEdits
    /\ \E current_separator \in CurrentSeparators :
        /\ editor' = SeparatorEditor_open(editor, current_separator)
        /\ last' = EditorDid("open", << current_separator >>)
    /\ nops' = nops + 1
    /\ UNCHANGED << config, segments, line, pc, input, picker >>

CloseEditor ==
    /\ pc = "idle" /\ nops < MaxEdits
    /\ editor' = SeparatorEditor_close(editor)
    /\ last' = EditorDid("close", <<>>)
    /\ nops' = nops + 1
    /\ UNCHANGED << config, segments, line, pc, input, picker >>

EditorInputChar ==
    /\ pc = "idle" /\ nops < MaxEdits
    /\ \E c \in EditorChars :
        /\ editor' = SeparatorEditor_input_char(editor, c)
        /\ last' = EditorDid("input_char", << c >>)
    /\ nops' = nops + 1
    /\ UNCHANGED << config, segments, line, pc, input, picker >>

EditorBackspace ==
    /\ pc = "idle" /\ nops < MaxEdits
    /\ editor' = SeparatorEditor_backspace(editor)
    /\ last' = EditorDid("backspace", <<>>)
    /\ nops' = nops + 1
    /\ UNCHANGED << config, segments, line, pc, input, picker >>

ClearInput ==
    /\ pc = "idle" /\ nops < MaxEdits
    /\ editor' = clear_input(editor)
    /\ last' = EditorDid("clear_input", <<>>)
    /\ nops' = nops + 1
    /\ UNCHANGED << config, segments, line, pc, input, picker >>

\* move_preset_selection(delta) as either build runs it.
MovePresetSelection ==
    /\ pc = "idle" /\ nops < MaxEdits
    /\ \E delta \in EditorDeltas, overflow_checks \in BOOLEAN :
        LET result == move_preset_selection(editor, delta, overflow_checks) IN
        /\ editor' = result.editor
        /\ pc' = IF result.state = "panicked" THEN "panicked" ELSE pc
        /\ last' = EditorDid("move_preset_selection", << delta >>)
    /\ nops' = nops + 1
    /\ UNCHANGED << config, segments, line, input, picker >>

InitSeparator ==
    /\ IdleRenderer
    /\ picker = DefaultPicker
    /\ last = NoOp
    /\ nops = 0

NextSeparator ==
    \/ OpenEditor
    \/ CloseEditor
    \/ EditorInputChar
    \/ EditorBackspace
    \/ ClearInput
    \/ MovePresetSelection

SpecSeparator == InitSeparator /\ [][NextSeparator]_vars

(***************************************************************************)
(* Properties of the color picker                                          *)
(***************************************************************************)
GridMode(p) == p.mode \in { "Basic16", "Extended256" }
Selected(p) == IF p.mode = "Basic16" THEN p.selected_basic ELSE p.selected_extended
PaletteSize(p) == IF p.mode = "Basic16" THEN 16 ELSE 256
PaletteColor(p) ==
    IF p.mode = "Basic16" THEN c16(p.selected_basic) ELSE c256(p.selected_extended)

\* The picker p standing at index s of its grid, as a move to s leaves it.
AtIndex(p, s) ==
    IF p.mode = "Basic16"
    THEN [p EXCEPT !.selected_basic = s, !.current_color = Some(c16(s))]
    ELSE [p EXCEPT !.selected_extended = s, !.current_color = Some(c256(s))]

WithCols(p, cols) ==
    [p EXCEPT !.cached_basic_cols = cols, !.cached_extended_cols = cols]

After(op) == last.op = op
AfterMove == After("move_horizontal") \/ After("move_vertical")

RECURSIVE Moved(_, _)
\* The picker p after n consecutive move_horizontal(+1) calls: the first
\* n \div 2 of them lead to mid, the others lead on from there.
Moved(p, n) ==
    IF n = 0 THEN p
    ELSE IF n = 1 THEN move_horizontal(p, 1)
    ELSE Only({ Moved(mid, m) : mid \in { Moved(p, n \div 2) }, m \in { n - n \div 2 } })

ColumnCounts == { 1, 2, 3, 7, 8, 16, 256 }

\* C6: in a grid mode (N = 16 or 256) move_horizontal wraps circularly: a call
\* moves the index by delta modulo N, every call leaves the picker at the index
\* it reports, N consecutive +1 calls from any index return to that index, and
\* none of this depends on the cached column count.
C6_HorizontalWraps ==
    /\ (After("move_horizontal") /\ GridMode(last.before)) =>
         LET n == PaletteSize(last.before)
         IN  Selected(picker) = (Selected(last.before) + last.arg[1] + n) % n
    /\ (GridMode(picker) /\ last.op \in { "none", "move_horizontal" }) =>
         /\ Moved(picker, PaletteSize(picker)) = AtIndex(picker, Selected(picker))
         /\ \A cols \in ColumnCounts :
              /\ Selected(Moved(WithCols(picker, cols), PaletteSize(picker)))
                   = Selected(picker)
              /\ \A delta \in Deltas :
                   Selected(move_horizontal(WithCols(picker, cols), delta))
                     = Selected(move_horizontal(picker, delta))

\* move_horizontal(+1) from the last index of the 256-color grid, two columns wide.
C6_Witness ==
    /\ After("move_horizontal") /\ last.arg = << 1 >>
    /\ last.before.mode = "Extended256" /\ last.before.selected_extended = 255
    /\ picker.selected_extended = 0 /\ picker.cached_extended_cols = 2

\* C7: whatever calls were made, selected_basic is within 0..15,
\* selected_extended within 0..255 and both cached column counts are at least
\* 1, so move_vertical has a non-zero divisor and lands inside the palette.
C7_IndicesInRange ==
    /\ picker.selected_basic \in 0 .. 15
    /\ picker.selected_extended \in 0 .. 255
    /\ picker.cached_basic_cols >= 1
    /\ picker.cached_extended_cols >= 1

\* move_vertical(+1) from the last 256-color index after a render too narrow
\* for one cell.
C7_Witness ==
    /\ After("move_vertical") /\ last.arg = << 1 >>
    /\ last.before.mode = "Extended256" /\ last.before.cached_extended_cols = 1
    /\ last.before.selected_extended = 255 /\ picker.selected_extended = 255

\* C8: after a move_horizontal or move_vertical made in a grid mode,
\* get_selected_color is the palette color at the selected index of that mode,
\* also when the index did not change.
C8_MoveSetsColor ==
    (AfterMove /\ GridMode(last.before)) =>
        /\ picker.current_color = Some(PaletteColor(picker))
        /\ get_selected_color(picker) = Some(PaletteColor(picker))

\* move_vertical(-1) on the top row: the index stays 0, the color becomes c16(0).
C8_Witness ==
    /\ After("move_vertical") /\ last.arg = << -1 >>
    /\ last.before.mode = "Basic16" /\ last.before.current_color = None
    /\ last.before.selected_basic = 0 /\ picker.selected_basic = 0
    /\ picker.current_color = Some(c16(0))

\* C9: open(target, initial), from any state, leaves the picker open in
\* Basic16 with both selections 0, the four text fields empty, Red focused,
\* target_field = target and current color = initial.
C9_OpenResets ==
    After("open") =>
        /\ picker.is_open
        /\ picker.mode = "Basic16"
        /\ picker.selected_basic = 0 /\ picker.selected_extended = 0
        /\ picker.rgb_input.r = <<>> /\ picker.rgb_input.g = <<>>
        /\ picker.rgb_input.b = <<>> /\ picker.rgb_input.hex = <<>>
        /\ picker.rgb_input.editing_field = "Red"
        /\ picker.target_field = last.arg[1]
        /\ get_selected_color(picker) = last.arg[2]

\* open(_, None) on a closed picker that kept the mode, a typed digit and the
\* color of an earlier session.
C9_Witness ==
    /\ After("open") /\ last.arg[2] = None
    /\ ~last.before.is_open
    /\ last.before.mode = "RgbInput"
    /\ last.before.rgb_input.r # <<>>
    /\ last.before.current_color # None
    /\ last.before.target_field # last.arg[1]

Edited(p) ==
    \/ p.selected_basic # 0 \/ p.selected_extended # 0
    \/ p.rgb_input # RgbInput_default

\* C10 as claimed: after close() the picker is closed and the edits are gone:
\* the selections and text fields are back at their initial values and
\* get_selected_color is not a color that only an edit can have produced.
C10_CloseDiscardsEdits ==
    After("close") =>
        /\ ~picker.is_open
        /\ ~Edited(picker)
        /\ get_selected_color(picker) \in InitialColors

\* C10: close() only hides the picker: every other field, the selections, the
\* text fields and the color get_selected_color returns, is what it was before
\* the call.
C10_CloseKeepsEdits ==
    After("close") =>
        /\ ~picker.is_open
        /\ picker = [last.before EXCEPT !.is_open = FALSE]
        /\ get_selected_color(picker) = get_selected_color(last.before)

\* close() after a move and a typed digit.
C10_Witness ==
    /\ After("close") /\ last.before.is_open
    /\ last.before.selected_basic = 1
    /\ last.before.rgb_input.r = << "2" >>
    /\ picker.rgb_input.r = << "2" >>
    /\ picker.current_color = Some(c16(1))

NextMode(mode) ==
    CASE mode = "Basic16" -> "Extended256"
      [] mode = "Extended256" -> "RgbInput"
      [] mode = "RgbInput" -> "Basic16"

\* C11: cycle_mode goes Basic16 -> Extended256 -> RgbInput -> Basic16: a call
\* leaves the mode that follows the old one, and from the mode of any state
\* three calls come back to it while one call and two calls do not.
C11_CycleOfThree ==
    /\ After("cycle_mode") => picker.mode = NextMode(last.before.mode)
    /\ cycle_mode(picker).mode # picker.mode
    /\ cycle_mode(cycle_mode(picker)).mode # picker.mode
    /\ cycle_mode(cycle_mode(cycle_mode(picker))).mode = picker.mode

\* cycle_mode called in RgbInput, the third call after open().
C11_Witness ==
    /\ After("cycle_mode")
    /\ last.before.mode = "RgbInput" /\ last.before.is_open
    /\ picker.mode = "Basic16"

\* C12 as claimed: after cycle_mode both grid selections are 0 and the RGB
\* text-entry state (focused field, field contents) is the initial one.
C12_CycleResetsNavigation ==
    After("cycle_mode") =>
        /\ picker.selected_basic = 0 /\ picker.selected_extended = 0
        /\ picker.rgb_input = RgbInput_default

\* C12: cycle_mode changes the mode and nothing else: the grid selections, the
\* text fields and the focused field are what they were before the call.
C12_CycleKeepsNavigation ==
    After("cycle_mode") =>
        picker = [last.before EXCEPT !.mode = NextMode(last.before.mode)]

\* cycle_mode out of RgbInput after a move in the grid and a typed digit.
C12_Witness ==
    /\ After("cycle_mode")
    /\ last.before.mode = "RgbInput"
    /\ last.before.selected_basic # 0 /\ picker.selected_basic = last.before.selected_basic
    /\ last.before.rgb_input.r # <<>> /\ picker.rgb_input = last.before.rgb_input

\* C13: cycle_mode leaves the current color alone: get_selected_color is the same
\* before and after the call, and after one, two or three further calls.
C13_CycleKeepsColor ==
    /\ After("cycle_mode") =>
         get_selected_color(picker) = get_selected_color(last.before)
    /\ get_selected_color(cycle_mode(picker)) = get_selected_color(picker)
    /\ get_selected_color(cycle_mode(cycle_mode(picker))) = get_selected_color(picker)
    /\ get_selected_color(cycle_mode(cycle_mode(cycle_mode(picker))))
         = get_selected_color(picker)

\* cycle_mode out of Basic16 while the color is the initial one and the
\* selection stands elsewhere.
C13_Witness ==
    /\ After("cycle_mode")
    /\ last.before.mode = "Basic16"
    /\ last.before.current_color = Some(rgb(1, 2, 3))
    /\ picker.current_color = Some(rgb(1, 2, 3))
    /\ picker.mode = "Extended256"

HexDigits == << "0", "1", "2", "3", "4", "5", "6", "7", "8", "9",
                "A", "B", "C", "D", "E", "F" >>
Range(seq) == { seq[i] : i \in DOMAIN seq }
DigitOf(c) == (CHOOSE i \in DOMAIN HexDigits : HexDigits[i] = c) - 1
DecimalDigit(c) == c \in Range(HexDigits) /\ DigitOf(c) <= 9
Capital(c) ==
    CASE c = "a" -> "A" [] c = "b" -> "B" [] c = "c" -> "C"
      [] c = "d" -> "D" [] c = "e" -> "E" [] c = "f" -> "F" [] OTHER -> c

DecimalFields(in) == << in.r, in.g, in.b >>
Focus(in) == in.editing_field
FocusedText(in) ==
    CASE Focus(in) = "Red" -> in.r [] Focus(in) = "Green" -> in.g
      [] Focus(in) = "Blue" -> in.b [] Focus(in) = "Hex" -> in.hex

WithFocusedText(in, text) ==
    CASE Focus(in) = "Red" -> [in EXCEPT !.r = text]
      [] Focus(in) = "Green" -> [in EXCEPT !.g = text]
      [] Focus(in) = "Blue" -> [in EXCEPT !.b = text]
      [] Focus(in) = "Hex" -> [in EXCEPT !.hex = text]

\* Whether the focused field of in takes the character c.
Accepts(in, c) ==
    IF Focus(in) = "Hex"
    THEN Len(in.hex) < 6 /\ Capital(c) \in Range(HexDigits)
    ELSE Len(FocusedText(in)) < 3 /\ DecimalDigit(c)

AfterEntry == After("input_char") \/ After("backspace")

\* C14: in RgbInput mode the R, G and B fields hold at most 3 characters, all
\* decimal digits, and the Hex field at most 6, all in 0-9 or A-F; input_char
\* appends an accepted character (a hex letter as its capital) to the focused
\* field and leaves all four fields as they were when the character is not
\* accepted; neither call closes the picker or leaves the mode.
C14_FieldsStayValid ==
    /\ \A i \in 1 .. 3 :
         /\ Len(DecimalFields(picker.rgb_input)[i]) <= 3
         /\ \A c \in Range(DecimalFields(picker.rgb_input)[i]) : DecimalDigit(c)
    /\ Len(picker.rgb_input.hex) <= 6
    /\ Range(picker.rgb_input.hex) \subseteq Range(HexDigits)
    /\ (After("input_char") /\ last.before.mode = "RgbInput") =>
         LET in == last.before.rgb_input
             c == last.arg[1]
         IN  picker.rgb_input =
                IF Accepts(in, c)
                THEN WithFocusedText(in, Append(FocusedText(in), Capital(c)))
                ELSE in
    /\ (AfterEntry /\ last.before.mode = "RgbInput") =>
         /\ picker.mode = "RgbInput"
         /\ picker.is_open = last.before.is_open

\* "x" typed into a Hex field that has room for one more character.
C14_Witness ==
    /\ After("input_char") /\ last.arg = << "x" >>
    /\ last.before.mode = "RgbInput"
    /\ last.before.rgb_input.editing_field = "Hex"
    /\ Len(last.before.rgb_input.hex) = 5
    /\ picker.rgb_input = last.before.rgb_input

RECURSIVE ValueOf(_, _)
ValueOf(text, radix) ==
    IF text = <<>> THEN 0
    ELSE ValueOf(SubSeq(text, 1, Len(text) - 1), radix) * radix
         + DigitOf(text[Len(text)])

IsByte(text) == text # <<>> /\ ValueOf(text, 10) <= 255

\* C15: after input_char or backspace in RgbInput mode the current color is
\* Rgb of the Hex field read as RRGGBB when that field holds 6 characters,
\* whatever R, G and B hold; else Rgb(R, G, B) when each of the three fields is
\* a number in 0..255; else the color it was before the call.
C15_HexFirst ==
    (AfterEntry /\ last.before.mode = "RgbInput") =>
        LET in == picker.rgb_input IN
        get_selected_color(picker) =
            IF Len(in.hex) = 6
            THEN Some(rgb(ValueOf(SubSeq(in.hex, 1, 2), 16),
                          ValueOf(SubSeq(in.hex, 3, 4), 16),
                          ValueOf(SubSeq(in.hex, 5, 6), 16)))
            ELSE IF IsByte(in.r) /\ IsByte(in.g) /\ IsByte(in.b)
            THEN Some(rgb(ValueOf(in.r, 10), ValueOf(in.g, 10), ValueOf(in.b, 10)))
            ELSE get_selected_color(last.before)

\* The sixth Hex character typed while R, G and B hold three valid numbers.
C15_Witness ==
    /\ After("input_char")
    /\ last.before.mode = "RgbInput"
    /\ Len(last.before.rgb_input.hex) = 5 /\ Len(picker.rgb_input.hex) = 6
    /\ IsByte(picker.rgb_input.r) /\ IsByte(picker.rgb_input.g)
    /\ IsByte(picker.rgb_input.b)
    /\ last.before.current_color = Some(rgb(25, 0, 99))
    /\ picker.current_color = Some(rgb(255, 0, 175))

(***************************************************************************)
(* Properties of themes and segment collectors                             *)
(***************************************************************************)
Themed == pc = "themed"

\* The theme a name stands for: the theme file of that name when there is one,
\* else the built-in preset of that name, else the default preset.
ResolvedTheme(theme_name, file) ==
    IF file # None THEN file[1]
    ELSE CASE theme_name = "default" -> get_default
           [] theme_name = "cometix" -> get_cometix
           [] theme_name = "minimal" -> get_minimal
           [] theme_name = "gruvbox" -> get_gruvbox
           [] theme_name = "nord" -> get_nord
           [] theme_name = "powerline-dark" -> get_powerline_dark
           [] theme_name = "powerline-light" -> get_powerline_light
           [] theme_name = "powerline-rose-pine" -> get_powerline_rose_pine
           [] theme_name = "powerline-tokyo-night" -> get_powerline_tokyo_night
           [] OTHER -> get_default

\* C16: after apply_theme(name) the configuration's theme is name, its style,
\* separator and five segment configurations (enabled flag, icon, colors, bold)
\* are those of the theme resolved for name, whatever they were before, and its
\* top-level enabled flag is the one it had.
C16_ThemeOverwrites ==
    Themed =>
        LET call == Unwrap(input)
            theme == ResolvedTheme(call.theme_name, call.file)
        IN  /\ config.theme = call.theme_name
            /\ config.style = theme.style
            /\ config.separator = theme.separator
            /\ \A id \in SegmentId :
                  get_segment_config(config, id) = get_segment_config(theme, id)
            /\ config.enabled = call.before.enabled

\* A built-in preset applied to a switched-off configuration with the Model
\* segment disabled, another style and another separator.
C16_Witness ==
    /\ Themed
    /\ Unwrap(input).file = None /\ Unwrap(input).theme_name = "nord"
    /\ ~Unwrap(input).before.enabled
    /\ ~get_segment_config(Unwrap(input).before, "Model").enabled
    /\ Unwrap(input).before.style = "Plain"
    /\ Unwrap(input).before.separator = " | "
    /\ get_segment_config(config, "Model").enabled
    /\ config.style = "Powerline"

\* The collector of segment id has run on the context in input.
Collected(id) == pc = "collected" /\ last.arg = << id >>
CollectedFrom == Unwrap(input).ctx
Primary == segments[1][2].primary

\* C17: for the Context segment, with used tokens and a window size above zero
\* the primary text is "{percent}% · {formattedTokens} tokens" where percent is
\* floor(used / window * 100); with tokens and no window size it is
\* "{formattedTokens} tokens"; with neither it is "- · - tokens"; 500000 of
\* 1000000 gives "50% · 500.0k tokens".
C17_PercentIsFloor ==
    Collected("Context") =>
        LET used == CollectedFrom.context_used_tokens
            window == CollectedFrom.context_window_size
        IN  /\ segments # <<>>
            /\ (used # None /\ window # None /\ window[1] > 0) =>
                  Primary = ToString((used[1] * 100) \div window[1]) \o "% " \o DOT
                            \o " " \o format_tokens(used[1]) \o " tokens"
            /\ (used # None /\ window = None) =>
                  Primary = format_tokens(used[1]) \o " tokens"
            /\ (used = None /\ window = None) =>
                  Primary = "- " \o DOT \o " - tokens"
            /\ (used = << 500000 >> /\ window = << 1000000 >>) =>
                  Primary = "50% " \o DOT \o " 500.0k tokens"

Formatted == pc = "formatted"
FormattedTokens == last.arg[1]

\* The text of a count of tenths with one decimal digit.
DecimalText(tenths) == ToString(tenths \div 10) \o "." \o ToString(tenths % 10)

\* The counts of tenths of a unit nearest to tokens (two of them half way).
NearestTenths(tokens, unit) ==
    { t \in { (10 * tokens) \div unit, (10 * tokens) \div unit + 1 } :
        /\ 2 * (10 * tokens - t * unit) <= unit
        /\ 2 * (t * unit - 10 * tokens) <= unit }

\* C18: for tokens >= 0 format_tokens gives the plain decimal integer below
\* 1,000, the thousands with exactly one decimal digit and suffix k from 1,000
\* to below 1,000,000, and the millions with exactly one decimal digit and
\* suffix M from 1,000,000; 500 gives "500", 1500 "1.5k", 150000 "150.0k" and
\* 1500000 "1.5M".
C18_TokenBuckets ==
    Formatted =>
        LET tokens == FormattedTokens
            text == line[1]
        IN  /\ tokens < 1000 => text = ToString(tokens)
            /\ (tokens >= 1000 /\ tokens < 1000000) =>
                  \E t \in NearestTenths(tokens, 1000) : text = DecimalText(t) \o "k"
            /\ tokens >= 1000000 =>
                  \E t \in NearestTenths(tokens, 1000000) : text = DecimalText(t) \o "M"
            /\ tokens = 500 => text = "500"
            /\ tokens = 1500 => text = "1.5k"
            /\ tokens = 150000 => text = "150.0k"
            /\ tokens = 1500000 => text = "1.5M"

\* 1050 tokens are half way between 1.0k and 1.1k; the f64 1.05 is above the half.
C18_Witness == Formatted /\ FormattedTokens = 1050 /\ line = << "1.1k" >>

Glyphed == pc = "glyph"

Glyphs ==
    << "U+F0A9E", "U+F0A9F", "U+F0AA0", "U+F0AA1",
       "U+F0AA2", "U+F0AA3", "U+F0AA4", "U+F0AA5" >>

BucketTops == << 12, 25, 37, 50, 62, 75, 87, 100 >>

Bucket(percent) ==
    CHOOSE b \in DOMAIN BucketTops :
        percent <= BucketTops[b] /\ (b = 1 \/ percent > BucketTops[b - 1])

\* The whole-number percent of an f64 x: the whole part of x * 100, not rounded.
WholePercent(x) ==
    IF x = F64_ZERO THEN 0
    ELSE LET product == f64_product_bits(x, 100) IN
         BitsValue(product, Max(x.exp + 1 + Len(product) - Len(x.bits), 0))

\* C19: for a utilization in [0,1] (here the f64 n / d) get_circle_icon gives
\* the glyph of the bucket 0-12, 13-25, 26-37, 38-50, 51-62, 63-75, 76-87 or
\* 88-100 that holds the utilization's whole-number percent, the eight glyphs
\* differ, and 0.0, 0.5 and 1.0 give the first, the fourth and the eighth.
C19_GlyphOfBucket ==
    (Glyphed /\ last.arg[1] <= last.arg[2]) =>
        LET n == last.arg[1]
            d == last.arg[2]
            glyph == line[1]
        IN  /\ glyph = Glyphs[Bucket(WholePercent(f64_div(n, d)))]
            /\ glyph = Glyphs[Bucket((100 * n) \div d)]
            /\ Cardinality({ Glyphs[b] : b \in DOMAIN Glyphs }) = 8
            /\ n = 0 => glyph = Glyphs[1]
            /\ 2 * n = d => glyph = Glyphs[4]
            /\ n = d => glyph = Glyphs[8]

\* 0.13, the first utilization of the second bucket.
C19_Witness ==
    Glyphed /\ last.arg = << 13, 100 >> /\ line = << Glyphs[2] >>

\* C20: for the Directory segment the primary text is the final component of
\* the working directory when the path has one, "/" for the filesystem root,
\* and there is no data for every other path without a final component, as
\* the empty path or a path ending in "..".
C20_FinalComponentOrRoot ==
    Collected("Directory") =>
        LET cwd == CollectedFrom.cwd
            final == cwd.comps # <<>> /\ cwd.comps[Len(cwd.comps)] \notin { "..", "." }
            root == cwd.absolute /\ cwd.comps = <<>>
        IN  /\ final => (segments # <<>> /\ Primary = cwd.comps[Len(cwd.comps)])
            /\ root => (segments # <<>> /\ Primary = "/")
            /\ (~final /\ ~root) => segments = <<>>

\* The line was rendered from the list build_statusline made of the context in input.
RenderedFromContext == Rendered /\ input # None

Listed(id) == \E i \in DOMAIN segments : segments[i][1] = id

\* The arrows or separators of the line, by style mode.
MarkCount ==
    IF PlainMode THEN Cardinality(Marks(IsSeparator)) ELSE Cardinality(Marks(IsArrow))

\* C21: with no token data the Context segment still has data (the placeholder
\* text) and is in the line whenever it is enabled; the Usage segment with no
\* rate-limit percent and the Git segment with a preview whose branch and status
\* are empty have no data and are left out entirely: the line has the spans of
\* the other segments only, and one separator or arrow fewer than segments.
C21_MissingData ==
    RenderedFromContext =>
        LET ctx == input[1].ctx IN
        /\ get_segment_config(config, "Context").enabled =>
              /\ Listed("Context")
              /\ \A i \in DOMAIN E : E[i][1] = "Context" =>
                    /\ HasContent(line, E[i][2].primary)
                    /\ ctx.context_used_tokens = None =>
                          E[i][2].primary = "- " \o DOT \o " - tokens"
        /\ ctx.rate_limit_percent = None => ~Listed("Usage")
        /\ (ctx.git_preview # None /\ ctx.git_preview[1].branch = ""
            /\ ctx.git_preview[1].status = "") => ~Listed("Git")
        /\ \A id \in SegmentId : ~Listed(id) =>
              \A k \in DOMAIN line :
                  line[k].content # IconConfig_get(get_segment_config(config, id).icon,
                                                   config.style) \o " "
        /\ DrawnTexts = LineTexts(E, FALSE)
        /\ MarkCount = Max(Len(E) - 1, 0)

C21_Witness ==
    /\ RenderedFromContext
    /\ input[1].ctx.context_used_tokens = None
    /\ input[1].ctx.rate_limit_percent = None
    /\ input[1].ctx.git_preview = << GitPreviewData("", "", 0, 0) >>
    /\ \A id \in SegmentId : get_segment_config(config, id).enabled
    /\ Len(E) = 3 /\ MarkCount = 2

\* C22: a color serialized and then deserialized is read back equal, for
\* Color16 and Color256 with any code and Rgb with any r, g, b; the tables
\* written, {c16}, {c256} and {r, g, b}, differ in their field names, and no
\* color is read back as a color of another variant.
C22_ColorRoundTrip ==
    /\ pc \in { "written", "read" } =>
          DOMAIN line[1] = (CASE input[1].kind = "Color16" -> { "c16" }
                              [] input[1].kind = "Color256" -> { "c256" }
                              [] input[1].kind = "Rgb" -> { "r", "g", "b" })
    /\ pc = "read" =>
          /\ segments = << input[1] >>
          /\ segments[1].kind = input[1].kind

\* A Color256 whose code is also a Color16 code.
C22_Witness ==
    pc = "read" /\ input = << c256(3) >> /\ segments = << c256(3) >>

Unusable(doc) == doc.state \in { "unreadable", "malformed" }

\* Every field is there, and so are the five segments with theirs.
FullyPopulated(cfg) ==
    /\ DOMAIN cfg = { "enabled", "theme", "style", "separator", "segments" }
    /\ DOMAIN cfg.segments = { "model", "directory", "git", "context", "usage" }
    /\ \A k \in DOMAIN cfg.segments :
          { "id", "enabled", "icon", "colors", "styles" } \subseteq DOMAIN cfg.segments[k]

\* C23 as claimed: load and get_theme always return a fully populated
\* configuration, and for an unparsable or unreadable configuration or theme
\* document what they return is the default built-in theme (the preset named
\* "default", or the preset that is CxLineConfig's default).
C23_FallsBackToDefault ==
    /\ pc \in { "loaded", "theme" } => FullyPopulated(config)
    /\ (pc = "loaded" /\ Unusable(input[1].config_doc)) =>
          config \in { get_default, get_cometix }
    /\ (pc = "theme" /\ Unusable(input[1].theme_doc)) =>
          config \in { get_default, get_cometix }

\* C23 as amended: load and get_theme always return a fully populated
\* configuration; for an unparsable or unreadable theme document get_theme
\* returns the built-in preset of the theme's name, and the preset named
\* "default" only for a name that no preset has; for an unparsable or
\* unreadable configuration document load returns what get_theme("cometix")
\* returns: the cometix theme file when it parses, else the cometix preset.
C23_FallsBackToPreset ==
    /\ pc \in { "loaded", "theme" } => FullyPopulated(config)
    /\ (pc = "loaded" /\ Unusable(input[1].config_doc)) =>
          IF input[1].cometix_doc.state = "table"
          THEN config = from_str(input[1].cometix_doc)[1]
          ELSE config = get_cometix
    /\ (pc = "theme" /\ Unusable(input[1].theme_doc)) =>
          config = ResolvedTheme(input[1].theme_name, None)

\* The nord theme file is malformed: get_theme gives the nord preset.
C23_Witness ==
    /\ pc = "theme" /\ input[1].theme_doc.state = "malformed"
    /\ input[1].theme_name = "nord" /\ config = get_nord /\ config # get_default

\* C24: detect_update_action always returns an action: NpmGlobalLatest whenever
\* the npm-managed flag is set, also with the bun-managed flag set, and when
\* neither flag is set; BunGlobalLatest exactly when the bun-managed flag is set
\* and the npm-managed flag is not.
C24_NpmBeforeBun ==
    pc = "detected" =>
        LET managed_by_npm == last.arg[1]
            managed_by_bun == last.arg[2]
        IN  /\ line # None
            /\ Len(line) = 1
            /\ line[1] \in { "NpmGlobalLatest", "BunGlobalLatest" }
            /\ managed_by_npm => line[1] = "NpmGlobalLatest"
            /\ (~managed_by_npm /\ ~managed_by_bun) => line[1] = "NpmGlobalLatest"
            /\ line[1] = "BunGlobalLatest" <=> (managed_by_bun /\ ~managed_by_npm)

\* Both flags set, the npm one by a variable whose value is "0".
C24_Witness ==
    /\ pc = "detected" /\ last.op = "get_update_action"
    /\ input[1]["CODEX_MANAGED_BY_NPM"] = << "0" >>
    /\ input[1]["CODEX_MANAGED_BY_BUN"] = << "1" >>
    /\ line = << "NpmGlobalLatest" >>

\* C25: in a grid of N = 16 or 256 entries in cols >= 1 columns move_vertical
\* takes row = index div cols, col = index mod cols and totalRows = ceil(N/cols);
\* down goes to row + 1 only if row + 1 < totalRows, up to row - 1 only if
\* row > 0, else the row stays (no wrap); the new index is
\* min(newRow * cols + col, N - 1), so a move down into a short last row lands
\* on N - 1.
C25_VerticalClamps ==
    (After("move_vertical") /\ GridMode(last.before)) =>
        LET p == last.before
            N == PaletteSize(p)
            cols == IF p.mode = "Basic16" THEN p.cached_basic_cols
                    ELSE p.cached_extended_cols
            index == Selected(p)
            row == index \div cols
            col == index % cols
            totalRows == (N + cols - 1) \div cols
            down == last.arg[1] > 0
            newRow == IF down /\ row + 1 < totalRows THEN row + 1
                      ELSE IF ~down /\ row > 0 THEN row - 1
                      ELSE row
        IN  /\ cols >= 1
            /\ picker.mode = p.mode
            /\ Selected(picker) = Min(newRow * cols + col, N - 1)
            /\ (down /\ row + 1 < totalRows /\ (row + 1) * cols + col > N - 1) =>
                  Selected(picker) = N - 1
            /\ (down /\ row + 1 >= totalRows) => Selected(picker) = index
            /\ (~down /\ row = 0) => Selected(picker) = index

\* Down from index 13 of the 16 colors in 3 columns: the last row holds only 15.
C25_Witness ==
    /\ After("move_vertical") /\ last.arg = << 1 >>
    /\ last.before.mode = "Basic16" /\ last.before.cached_basic_cols = 3
    /\ last.before.selected_basic = 13 /\ picker.selected_basic = 15

\* C26: in the 256-color grid the page drawn is floor(selected_extended /
\* pageSize) with pageSize = columnsPerRow * visibleRows >= 1, worked out at
\* render time and kept nowhere in the picker; so whatever navigation and
\* terminal sizes came before, the selected index lies in the range
\* [page * pageSize, min((page + 1) * pageSize, 256)) of the page drawn.
C26_PageHoldsSelection ==
    /\ DOMAIN picker = { "is_open", "mode", "selected_basic", "selected_extended",
                         "rgb_input", "current_color", "target_field",
                         "cached_basic_cols", "cached_extended_cols" }
    /\ After("render_extended_colors") =>
          LET columnsPerRow == IF last.arg[1] \div 7 >= 1 THEN last.arg[1] \div 7 ELSE 1
              visibleRows == IF last.arg[2] > 3 THEN (last.arg[2] - 2) \div 2 ELSE 1
              pageSize == columnsPerRow * visibleRows
              page == line[1].page_index
              upper == IF (page + 1) * pageSize < 256 THEN (page + 1) * pageSize ELSE 256
          IN  /\ pageSize >= 1
              /\ page = picker.selected_extended \div pageSize
              /\ line[1].start_index = page * pageSize
              /\ line[1].end_index = upper
              /\ picker.selected_extended >= page * pageSize
              /\ picker.selected_extended < upper
              /\ picker = [last.before EXCEPT !.cached_extended_cols = columnsPerRow]

\* The last color, on a last page that is cut short at 256.
C26_Witness ==
    /\ After("render_extended_colors") /\ last.arg = << 50, 9 >>
    /\ picker.selected_extended = 255
    /\ line = << [page_index |-> 12, start_index |-> 252, end_index |-> 256] >>

\* The style of a segment's padding and texts, and that of its icon.
SegmentStyle(entry) ==
    LET c == get_segment_config(config, entry[1]) IN
    [fg |-> text_color(c.colors), bg |-> background_color(c.colors),
     bold |-> c.styles.text_bold, dim |-> FALSE]

IconStyle(entry) ==
    LET c == get_segment_config(config, entry[1]) IN
    IF icon_color(c.colors) # None
    THEN [SegmentStyle(entry) EXCEPT !.fg = icon_color(c.colors)]
    ELSE SegmentStyle(entry)

Styled(text, style) == [content |-> text, style |-> style]

\* C27: in Powerline mode each rendered segment brings, in this order, one
\* space, the span "{icon} " only if the resolved icon is not empty, the primary
\* text, " {secondary}" only if the secondary text is not empty, one space, and
\* then the arrow unless it is the last segment; the spaces and the texts carry
\* the segment style (background if set, text color if set, bold if
\* configured), the icon span the same style with the icon color as foreground
\* when one is set.
C27_PowerlineSpans ==
    (Rendered /\ ~PlainMode) =>
        /\ Cardinality(Marks(IsArrow)) = Max(Len(E) - 1, 0)
        /\ \A i \in 1..Len(E) :
            LET glyph == Glyph(E[i], FALSE)
                style == SegmentStyle(E[i])
            IN  /\ Block(IsArrow, i) =
                      << Styled(" ", style) >>
                      \o (IF glyph # "" THEN << Styled(glyph \o " ", IconStyle(E[i])) >>
                          ELSE <<>>)
                      \o << Styled(E[i][2].primary, style) >>
                      \o (IF E[i][2].secondary # ""
                          THEN << Styled(" " \o E[i][2].secondary, style) >> ELSE <<>>)
                      \o << Styled(" ", style) >>
                /\ i < Len(E) => IsArrow(line[BlockEnd(IsArrow, i) + 1])
                /\ i = Len(E) => BlockEnd(IsArrow, i) = Len(line)

\* A Powerline line of several segments, one with an icon and a secondary text,
\* one whose icon has another color than its text, one in bold.
C27_Witness ==
    /\ Rendered /\ ~PlainMode /\ Len(E) >= 2
    /\ \E i \in DOMAIN E : E[i][2].secondary # "" /\ Glyph(E[i], FALSE) # ""
    /\ \E i \in DOMAIN E : Glyph(E[i], FALSE) # "" /\ IconStyle(E[i]) # SegmentStyle(E[i])
    /\ \E i \in DOMAIN E : SegmentStyle(E[i]).bold

(***************************************************************************)
(* Properties of the current color, the separator editor and empty lines   *)
(***************************************************************************)
\* The colors the last call may have selected: the palette color under the
\* selection for a move in a grid mode, the color the four text fields spell
\* for a character typed or erased in RgbInput mode, none for any other call.
ColorsSelected ==
    IF AfterMove /\ GridMode(last.before) THEN { Some(PaletteColor(picker)) }
    ELSE IF AfterEntry /\ last.before.mode = "RgbInput"
    THEN LET in == picker.rgb_input IN
         (IF Len(in.hex) = 6
          THEN { Some(rgb(ValueOf(SubSeq(in.hex, 1, 2), 16),
                          ValueOf(SubSeq(in.hex, 3, 4), 16),
                          ValueOf(SubSeq(in.hex, 5, 6), 16))) }
          ELSE {})
         \cup (IF IsByte(in.r) /\ IsByte(in.g) /\ IsByte(in.b)
               THEN { Some(rgb(ValueOf(in.r, 10), ValueOf(in.g, 10), ValueOf(in.b, 10))) }
               ELSE {})
    ELSE {}

AfterOtherThanOpen ==
    last.op \in { "cycle_mode", "move_horizontal", "move_vertical", "input_char",
                  "backspace", "render", "close" }

\* C28: once the current color is Some, a cycle_mode, move_horizontal,
\* move_vertical, input_char, backspace, render or close leaves it Some, and
\* leaves it either as it was or as a color that call selected; the current
\* color goes from Some to None only through open(target, None).
C28_ColorStaysSome ==
    /\ (AfterOtherThanOpen /\ last.before.current_color # None) =>
         /\ picker.current_color # None
         /\ picker.current_color \in { last.before.current_color } \cup ColorsSelected
    /\ (last.before.current_color # None /\ picker.current_color = None) =>
         /\ After("open")
         /\ last.arg[2] = None

\* A backspace that leaves the text fields spelling no color, made on a picker
\* whose current color was typed before.
C28_Witness ==
    /\ After("backspace")
    /\ last.before.mode = "RgbInput"
    /\ last.before.current_color = Some(rgb(25, 0, 99))
    /\ picker.rgb_input # last.before.rgb_input
    /\ ColorsSelected = {}
    /\ picker.current_color = Some(rgb(25, 0, 99))

AfterEdit(op) == last.op = op

PresetCount == Len(SeparatorEditor_presets)

\* selected + delta held between the first and the last preset index, computed
\* without forming the sum when it is out of range.
Clamped(selected, delta) ==
    IF delta >= (PresetCount - 1) - selected THEN PresetCount - 1
    ELSE IF delta <= -selected THEN 0
    ELSE selected + delta

\* C29: in the separator editor, after any open, input_char, backspace,
\* clear_input, move_preset_selection or close, a selected_preset of Some(i)
\* has i a preset index and the input is that preset's value; input_char of a
\* character that is not a control character, backspace and clear_input leave
\* selected_preset None; move_preset_selection(delta) returns and leaves the
\* selection at the old one plus delta, held between the first and the last
\* preset, and from None at the first preset when delta is positive and at the
\* last one otherwise.
C29_PresetTracksInput ==
    /\ pc # "panicked"
    /\ IsSome(editor.selected_preset) =>
         /\ Unwrap(editor.selected_preset) \in 0 .. PresetCount - 1
         /\ editor.input = SeparatorEditor_presets[Unwrap(editor.selected_preset) + 1].value
    /\ ((AfterEdit("input_char") /\ last.arg[1] \notin { "\t", "\n", "\r" })
        \/ AfterEdit("backspace") \/ AfterEdit("clear_input")) =>
         editor.selected_preset = None
    /\ AfterEdit("move_preset_selection") =>
         editor.selected_preset =
            IF IsSome(last.before.selected_preset)
            THEN Some(Clamped(Unwrap(last.before.selected_preset), last.arg[1]))
            ELSE IF last.arg[1] > 0 THEN Some(0)
            ELSE Some(PresetCount - 1)

\* C30: render_line on a list with no enabled entry (the list is empty, or
\* every entry's segment is disabled) returns a line without spans in Plain,
\* NerdFont and Powerline mode and never panics; the body of render_powerline's
\* loop, where i < segment_count - 1 is tested, runs only with segment_count at
\* least 1, so that subtraction is never below zero.
C30_EmptyLine ==
    /\ pc # "panicked"
    /\ (Rendered /\ Len(E) = 0) => line = <<>>
    /\ \A i \in powerline_iterations(E) : Len(E) >= 1 /\ usize_sub(Len(E), 1) # None

\* A Powerline line rendered from a list whose entries are all disabled.
C30_Witness ==
    /\ Rendered /\ ~PlainMode
    /\ Len(segments) >= 2 /\ Len(E) = 0
    /\ line = <<>>

====
